---------------------------- MODULE Spec2Model ----------------------------
(* A model of the phase orchestration engine of vps-setup:                 *)
(*   - ErrorHandler (src/utils/error-handler.js): retry configurations,    *)
(*     withRetry, calculateDelay, analyzeError and its is*Error predicates, *)
(*     createEnhancedError;                                                 *)
(*   - VpsSetupOrchestrator (main.js, bundled in                           *)
(*     src/templates/micro-config.js): run, runPhases, shouldSkipPhase,    *)
(*     runPhase;                                                            *)
(*   - the command line of vps-setup.js.                                    *)
(* Strings are TLA+ strings; String.prototype.includes and toLowerCase are  *)
(* computed character by character.                                         *)
EXTENDS Integers, Sequences, FiniteSets, TLC

VARIABLES
  \* ---- the process: vps-setup.js and VpsSetupOrchestrator ----
  runNo,           \* how many times the command has been started
  args,            \* process.argv.slice(2) of the current process
  options,         \* the options object parsed from args
  pc,              \* "shell", "preflight", "initState", "detect", "phases",
                   \* "running", "report", "finalize", "exited"
  exitCode,        \* the exit code of the last process, NoExit while it runs
  currentPhaseIndex, \* this.currentPhaseIndex, 1-based
  errors,          \* this.errors, the error ledger
  state,           \* stateManager.state, the RunState in memory
  disk,            \* the state file ~/.vps-setup-state.json
  loaded,          \* the RunState as initializeState left it (history)
  decision,        \* per phase: "none", "skip" or "run", the result of shouldSkipPhase (history)
  invoked,         \* the phases whose body (phase.run) was invoked, in order (history)
  outcome,         \* per phase: how the race in runPhase ended (history)
  pending,         \* per phase: what the settled race left behind in the process:
                   \* "body" (phase.run still running), "timer" (setTimeout still armed), "none"
  \* ---- StateManager (src/utils/state.js), called directly ----
  smPc,            \* "idle" (no call sequence), "ready", "writing" (inside fs.writeJson), "crashed"
  smCall,          \* the last call that returned: its arguments, result and the state before it
  clock,           \* the system clock (new Date())
  \* ---- ErrorHandler.withRetry (one call) ----
  operationType,   \* the operationType argument
  context,         \* the context argument
  opPlan,          \* the operation: which of its invocations fail
  rpc,             \* position in withRetry: "idle", "loop", "sleeping", "returned", "thrown"
  attempt,         \* the loop variable
  calls,           \* number of invocations of operation() so far
  lastError,       \* the local lastError
  sleeps,          \* the delays slept so far, in order
  retryResult,     \* what withRetry returned or threw
  \* ---- ErrorHandler.analyzeError (one call) ----
  anError,         \* the error argument
  anContext,       \* the context argument
  errorInfo,       \* the returned record, NoInfo before the call
  \* ---- ErrorHandler: withGracefulDegradation (one call), the error tally ----
  wgd,             \* the call: its stage, its arguments, what the primary did, its result
  errorCounts,     \* this.errorCounts, the Map of 'category:operation' to a count
  \* ---- CommandRunner.installPackage (one call) ----
  install,         \* the call: its stage, the command, the outer loop of withRetry, its result
  \* ---- two processes started on the same machine, compared ----
  twoRuns          \* the command line, the machine, and what each process left

orchVars == <<runNo, args, options, pc, exitCode, currentPhaseIndex, errors, state, disk,
              loaded, decision, invoked, outcome, pending>>
processVars == <<runNo, args, options, pc, exitCode, currentPhaseIndex, errors,
                 loaded, decision, invoked, outcome, pending>>
stateVars == <<smPc, smCall, clock>>
retryVars == <<operationType, context, opPlan, rpc, attempt, calls, lastError, sleeps, retryResult>>
classifyVars == <<anError, anContext, errorInfo>>
handlerVars == <<wgd, errorCounts, install>>
compareVars == <<twoRuns>>
vars == <<orchVars, stateVars, retryVars, classifyVars, handlerVars, compareVars>>

Undefined == "undefined"

\* ------------------------------------------------------------------------
\* Strings
\* ------------------------------------------------------------------------
UpperChars == "ABCDEFGHIJKLMNOPQRSTUVWXYZ"
LowerChars == "abcdefghijklmnopqrstuvwxyz"

toLowerChar(c) ==
  IF \E k \in 1..Len(UpperChars) : SubSeq(UpperChars, k, k) = c
  THEN LET k == CHOOSE j \in 1..Len(UpperChars) : SubSeq(UpperChars, j, j) = c
       IN  SubSeq(LowerChars, k, k)
  ELSE c

\* the characters of s from position k on, in lower case
RECURSIVE toLowerFrom(_, _)
toLowerFrom(s, k) ==
  IF k > Len(s) THEN ""
  ELSE toLowerChar(SubSeq(s, k, k)) \o toLowerFrom(s, k + 1)

\* String.prototype.toLowerCase
toLowerCase(s) == toLowerFrom(s, 1)

\* String.prototype.includes
includes(s, keyword) ==
  \E k \in 1..(Len(s) - Len(keyword) + 1) : SubSeq(s, k, k + Len(keyword) - 1) = keyword

\* Array.prototype.some over a keyword list
someKeyword(keywords, message) ==
  \E k \in 1..Len(keywords) : includes(message, keywords[k])


\* ------------------------------------------------------------------------
\* ErrorHandler: retry configurations and the backoff delay
\* ------------------------------------------------------------------------
\* A backoffMultiplier is kept as the fraction num/den (2, 1.5 = 3/2, 1.2 = 6/5).
retryConfigs ==
  ( "network" :>
      [maxRetries |-> 3, baseDelay |-> 1000, maxDelay |-> 10000,
       backoffMultiplier |-> [num |-> 2, den |-> 1]] )
  @@
  ( "package-install" :>
      [maxRetries |-> 2, baseDelay |-> 2000, maxDelay |-> 15000,
       backoffMultiplier |-> [num |-> 3, den |-> 2]] )
  @@
  ( "file-operation" :>
      [maxRetries |-> 3, baseDelay |-> 500, maxDelay |-> 5000,
       backoffMultiplier |-> [num |-> 6, den |-> 5]] )
  @@
  ( "command-execution" :>
      [maxRetries |-> 2, baseDelay |-> 1000, maxDelay |-> 8000,
       backoffMultiplier |-> [num |-> 3, den |-> 2]] )
  @@
  ( "default" :>
      [maxRetries |-> 1, baseDelay |-> 1000, maxDelay |-> 5000,
       backoffMultiplier |-> [num |-> 3, den |-> 2]] )

\* The operation categories: the keys of the retryConfigs map.
OperationTypes == DOMAIN retryConfigs

\* const config = this.retryConfigs.get(operationType) || this.retryConfigs.get('default')
configFor(type) ==
  IF type \in OperationTypes THEN retryConfigs[type] ELSE retryConfigs["default"]

RECURSIVE Pow(_, _)
Pow(b, e) == IF e <= 0 THEN 1 ELSE b * Pow(b, e - 1)

\* Exact fractions n/d with d > 0.
RatLeq(a, b) == a.n * b.d <= b.n * a.d
RatEq(a, b) == a.n * b.d = b.n * a.d
RatOf(i) == [n |-> i, d |-> 1]

\* Mutant of calculateDelay: the exponent is attempt, not attempt - 1.
calculateDelay_ExponentAttempt(att, config) ==
  LET delay == [n |-> config.baseDelay * Pow(config.backoffMultiplier.num, att),
                d |-> Pow(config.backoffMultiplier.den, att)]
  IN  IF RatLeq(delay, RatOf(config.maxDelay)) THEN delay ELSE RatOf(config.maxDelay)

\* const delay = config.baseDelay * Math.pow(config.backoffMultiplier, attempt - 1);
\* return Math.min(delay, config.maxDelay);
calculateDelay(att, config) ==
  LET delay == [n |-> config.baseDelay * Pow(config.backoffMultiplier.num, att - 1),
                d |-> Pow(config.backoffMultiplier.den, att - 1)]
  IN  IF RatLeq(delay, RatOf(config.maxDelay)) THEN delay ELSE RatOf(config.maxDelay)

\* ------------------------------------------------------------------------
\* ErrorHandler: classification
\* ------------------------------------------------------------------------
\* const message = error.message?.toLowerCase() || '';
\* (the errors modelled are Error objects: message is a string, possibly empty)
messageOf(error) == toLowerCase(error.message)

\* In each predicate, const message = ... is evaluated once: message ranges
\* over the one-element set of its value.
isNetworkError(error) ==
  \E message \in {messageOf(error)} :
    \/ someKeyword(<<"network", "connection", "timeout", "dns", "host", "unreachable">>,
                   message)
    \/ error.code = "ENOTFOUND" \/ error.code = "ECONNREFUSED"
    \/ error.code = "ETIMEDOUT" \/ error.code = "ENETUNREACH"

isPermissionError(error) ==
  \E message \in {messageOf(error)} :
    \/ someKeyword(<<"permission", "denied", "access", "unauthorized", "forbidden">>,
                   message)
    \/ error.code = "EACCES" \/ error.code = "EPERM"

isPackageManagerError(error) ==
  \E message \in {messageOf(error)} :
    \/ someKeyword(<<"package", "dependency", "install", "apt", "dpkg", "repository">>,
                   message)
    \/ (error.code = "ENOENT" /\ includes(message, "package"))

isFileSystemError(error) ==
  \E message \in {messageOf(error)} :
    \/ someKeyword(<<"file", "directory", "disk", "space", "readonly", "busy">>,
                   message)
    \/ error.code = "ENOSPC" \/ error.code = "EROFS" \/ error.code = "EBUSY"

isCommandNotFoundError(error) ==
  \E message \in {messageOf(error)} :
    \/ includes(message, "command not found")
    \/ includes(message, "no such file")
    \/ (error.code = "ENOENT" /\ includes(message, "command"))

isTimeoutError(error) ==
  \E message \in {messageOf(error)} :
    \/ includes(message, "timeout")
    \/ includes(message, "timed out")
    \/ error.code = "ETIMEDOUT"

isConfigurationError(error) ==
  \E message \in {messageOf(error)} :
    someKeyword(<<"config", "configuration", "invalid", "syntax", "format">>, message)

\* The summary and the fixed suggestion list analyzeError assigns with a category.
summaryOf ==
  ( "network" :> "Network connectivity issue" ) @@
  ( "permission" :> "Permission denied" ) @@
  ( "package-manager" :> "Package installation failed" ) @@
  ( "filesystem" :> "File system operation failed" ) @@
  ( "command-not-found" :> "Command or tool not found" ) @@
  ( "timeout" :> "Operation timed out" ) @@
  ( "configuration" :> "Configuration error" )

suggestionsOf ==
  ( "network" :> <<"Check your internet connection", "Verify DNS settings",
                   "Try using a different network", "Check firewall settings">> ) @@
  ( "permission" :> <<"Run the command with sudo", "Check file/directory permissions",
                      "Verify user has appropriate access rights">> ) @@
  ( "package-manager" :> <<"Update package lists: sudo apt update",
                           "Check available disk space",
                           "Verify package repository configuration",
                           "Try installing dependencies manually">> ) @@
  ( "filesystem" :> <<"Check available disk space", "Verify file/directory permissions",
                      "Ensure target location is writable",
                      "Check for file locks or conflicts">> ) @@
  ( "command-not-found" :> <<"Install the required package",
                             "Check if the command is in PATH",
                             "Verify the tool is properly installed",
                             "Try using an alternative command">> ) @@
  ( "timeout" :> <<"Check network connectivity", "Try again with a longer timeout",
                   "Verify the target service is responsive", "Check system resources">> ) @@
  ( "configuration" :> <<"Verify configuration file syntax",
                         "Check required configuration parameters",
                         "Ensure configuration files are readable",
                         "Validate configuration against schema">> ) @@
  ( "unknown" :> << >> )

\* Mutant of categoryOf: the permission test comes before the network test.
categoryOf_PermissionFirst(error) ==
  IF isPermissionError(error) THEN "permission"
  ELSE IF isNetworkError(error) THEN "network"
  ELSE IF isPackageManagerError(error) THEN "package-manager"
  ELSE IF isFileSystemError(error) THEN "filesystem"
  ELSE IF isCommandNotFoundError(error) THEN "command-not-found"
  ELSE IF isTimeoutError(error) THEN "timeout"
  ELSE IF isConfigurationError(error) THEN "configuration"
  ELSE "unknown"

\* The if / else-if chain of analyzeError.
categoryOf(error) ==
  IF isNetworkError(error) THEN "network"
  ELSE IF isPermissionError(error) THEN "permission"
  ELSE IF isPackageManagerError(error) THEN "package-manager"
  ELSE IF isFileSystemError(error) THEN "filesystem"
  ELSE IF isCommandNotFoundError(error) THEN "command-not-found"
  ELSE IF isTimeoutError(error) THEN "timeout"
  ELSE IF isConfigurationError(error) THEN "configuration"
  ELSE "unknown"

\* const errorMessage = error.message || error.toString();
\* (Error.prototype.toString() of an Error with an empty message is "Error")
errorMessageOf(error) ==
  IF error.message = "" THEN "Error" ELSE error.message

\* const errorCode = error.code || error.exitCode || null;
errorCodeOf(error) ==
  IF error.code # Undefined THEN error.code
  ELSE IF error.exitCode # Undefined THEN error.exitCode
  ELSE "null"

\* context.operation / context.phase, pushed after the category's list
contextSuggestions(ctx) ==
  (IF ctx.operation # Undefined
   THEN <<"Review the " \o ctx.operation \o " operation">> ELSE << >>)
  \o
  (IF ctx.phase # Undefined
   THEN <<"Check " \o ctx.phase \o " phase requirements">> ELSE << >>)

analyzeError(error, ctx) ==
  LET category == categoryOf(error) IN
  [ category |-> category,
    summary |-> IF category = "unknown" THEN errorMessageOf(error) ELSE summaryOf[category],
    suggestions |-> suggestionsOf[category] \o contextSuggestions(ctx),
    severity |-> "error",
    originalError |-> error,
    errorCode |-> errorCodeOf(error),
    context |-> ctx ]

\* Mutant of createEnhancedError: the category is not copied to the new error.
createEnhancedError_NoCategory(originalError, info, ctx) ==
  [ name |-> "VpsSetupError",
    message |-> info.summary,
    category |-> "unknown",
    suggestions |-> info.suggestions,
    severity |-> info.severity,
    context |-> ctx,
    originalError |-> originalError,
    errorCode |-> info.errorCode ]

createEnhancedError(originalError, info, ctx) ==
  [ name |-> "VpsSetupError",
    message |-> info.summary,
    category |-> info.category,
    suggestions |-> info.suggestions,
    severity |-> info.severity,
    context |-> ctx,
    originalError |-> originalError,
    errorCode |-> info.errorCode ]


\* ------------------------------------------------------------------------
\* Inputs
\* ------------------------------------------------------------------------
\* Messages of errors: those the program itself raises (main.js, command.js, the
\* phases), those of Node and execa for failed commands, the two of the
\* specification's examples, and the summaries analyzeError assigns.
Messages ==
  { "ECONNREFUSED: connection refused",
    "EACCES: permission denied",
    "Phase timeout",
    "Internet connectivity check failed",
    "Failed to install zsh: undefined",
    "Command failed with exit code 100: sudo apt install zsh -y",
    "zsh: command not found",
    "ENOENT: no such file or directory, open '/etc/zsh/zshrc'",
    "spawn git ENOENT",
    "Invalid Micro configuration: tabsize",
    "Could not determine current user",
    "Permission denied while installing package on host",
    "",
    "Network connectivity issue",
    "Permission denied",
    "Package installation failed",
    "File system operation failed",
    "Command or tool not found",
    "Operation timed out",
    "Configuration error" }

Codes ==
  { Undefined, "ENOTFOUND", "ECONNREFUSED", "ETIMEDOUT", "ENETUNREACH", "EACCES",
    "EPERM", "ENOENT", "ENOSPC", "EROFS", "EBUSY" }

ExitCodes == { Undefined, "1" }

Errors == [message : Messages, code : Codes, exitCode : ExitCodes]

\* The context arguments: {}, {operation}, {operation, phase}.
Contexts ==
  { [operation |-> Undefined, phase |-> Undefined],
    [operation |-> "internet connectivity check", phase |-> Undefined],
    [operation |-> "install package zsh", phase |-> "Zsh Setup"] }

\* The errors an operation under withRetry throws.
RetryErrors ==
  { [message |-> "ECONNREFUSED: connection refused", code |-> "ECONNREFUSED", exitCode |-> Undefined],
    [message |-> "Command failed with exit code 100: sudo apt install zsh -y", code |-> Undefined, exitCode |-> "1"],
    [message |-> "Could not determine current user", code |-> Undefined, exitCode |-> Undefined],
    [message |-> "EACCES: permission denied", code |-> "EACCES", exitCode |-> Undefined] }

\* An operation fails on its first failFirst invocations, or on every one.
MaxFailFirst == 4
OpPlans == [alwaysFails : BOOLEAN, failFirst : 0..MaxFailFirst]
invocationFails(plan, n) == plan.alwaysFails \/ n <= plan.failFirst

NoError == [name |-> "null"]
NoInfo == [category |-> "none"]
NoResult == [kind |-> "none"]
OperationValue == "operation result"


\* ------------------------------------------------------------------------
\* vps-setup.js: the command line
\* ------------------------------------------------------------------------
hasComma(s) == \E k \in 1..Len(s) : SubSeq(s, k, k) = ","
firstComma(s) ==
  CHOOSE k \in 1..Len(s) :
    /\ SubSeq(s, k, k) = ","
    /\ \A j \in 1..(k - 1) : SubSeq(s, j, j) # ","

\* String.prototype.split(',')
RECURSIVE split(_)
split(s) ==
  IF ~hasComma(s) THEN <<s>>
  ELSE <<SubSeq(s, 1, firstComma(s) - 1)>> \o split(SubSeq(s, firstComma(s) + 1, Len(s)))

\* const options = {};  A key the loop never assigns is undefined: FALSE stands
\* for an undefined flag, the empty list for an undefined list (the code only
\* tests flags with === true / !== true and lists with && list.includes).
\* help: the loop reached process.exit(0).
NoOptions ==
  [ continueOnError |-> FALSE, skipOptional |-> FALSE, verbose |-> FALSE,
    skipPhases |-> << >>, resetState |-> FALSE, forcePhases |-> << >>,
    help |-> FALSE ]

\* for (let i = 0; i < args.length; i++) switch (args[i]) ...   (k is i + 1)
RECURSIVE parseFrom(_, _, _)
parseFrom(argv, k, opts) ==
  IF k > Len(argv) THEN opts
  ELSE LET arg == argv[k] IN
    IF arg = "--continue-on-error"
      THEN parseFrom(argv, k + 1, [opts EXCEPT !.continueOnError = TRUE])
    ELSE IF arg = "--skip-optional"
      THEN parseFrom(argv, k + 1, [opts EXCEPT !.skipOptional = TRUE])
    ELSE IF arg = "--verbose"
      THEN parseFrom(argv, k + 1, [opts EXCEPT !.verbose = TRUE])
    ELSE IF arg = "--skip-phases"
      THEN IF k + 1 <= Len(argv)
           THEN parseFrom(argv, k + 2, [opts EXCEPT !.skipPhases = split(argv[k + 1])])
           ELSE parseFrom(argv, k + 1, opts)
    ELSE IF arg = "--reset-state"
      THEN parseFrom(argv, k + 1, [opts EXCEPT !.resetState = TRUE])
    ELSE IF arg = "--force-phases"
      THEN IF k + 1 <= Len(argv)
           THEN parseFrom(argv, k + 2, [opts EXCEPT !.forcePhases = split(argv[k + 1])])
           ELSE parseFrom(argv, k + 1, opts)
    ELSE IF arg = "--help" \/ arg = "-h"
      THEN [opts EXCEPT !.help = TRUE]
    ELSE parseFrom(argv, k + 1, opts)

\* Mutant of parseArguments: the help case does not end the process.
parseArguments_HelpGoesOn(argv) == [parseFrom(argv, 1, NoOptions) EXCEPT !.help = FALSE]

parseArguments(argv) == parseFrom(argv, 1, NoOptions)

\* Array.prototype.includes of an optional list
listIncludes(list, x) == \E k \in 1..Len(list) : list[k] = x

\* The command lines tried.
CommandLines ==
  { a \o b :
      a \in {<< >>, <<"--continue-on-error">>},
      b \in {<< >>, <<"--verbose">>, <<"--skip-optional">>,
             <<"--skip-phases", "admin,optional">>, <<"--skip-phases", "Admin Tools">>,
             <<"--force-phases", "tools">>, <<"--force-phases", "Essential Tools">>,
             <<"--reset-state">>} }
  \cup { <<"--help">> }

\* ------------------------------------------------------------------------
\* The phases (constructor of VpsSetupOrchestrator)
\* ------------------------------------------------------------------------
\* this.phases[i].getName(), in declared order
PhaseNames == <<"Zsh Setup", "Essential Tools", "Configuration", "Admin Tools", "Optional Tools">>
\* the identifiers of the usage text of vps-setup.js, in the same order
PhaseIds == <<"zsh", "tools", "config", "admin", "optional">>
PhaseIndexes == 1..Len(PhaseNames)
totalPhases == Len(PhaseNames)

\* this.phases[i].isOptional(): true for OptionalPhase only
isOptional(i) == PhaseNames[i] = "Optional Tools"

\* What a phase body (phase.run) resolves with: the result of the work, the
\* user's choice "skip", or the failure its catch block returns.
BodyValues ==
  { [success |-> TRUE, skipped |-> FALSE],
    [success |-> TRUE, skipped |-> TRUE],
    [success |-> FALSE, error |-> "Failed to install htop"] }

\* What the body of phase i passes to setPhaseStatus when its work is done.
PhasePayloads ==
  << [installed |-> TRUE], [installed |-> TRUE], [configured |-> TRUE],
     [installed |-> TRUE], [installed |-> TRUE] >>

\* What a phase body rejects with.
BodyErrors == { [message |-> "Could not determine current user"] }

\* setTimeout(() => reject(new Error('Phase timeout')), 300000)
PhaseTimeoutError == [message |-> "Phase timeout"]

\* ------------------------------------------------------------------------
\* StateManager, as the orchestrator uses it
\* ------------------------------------------------------------------------
NoPhases == [n \in {} |-> 0]
\* system: { os: null, distribution: null, shell: null }
NoSystem == [os |-> "null", distribution |-> "null", shell |-> "null"]
\* the state of the constructor; lastRun 0 stands for null
FreshState ==
  [version |-> "1.0.0", lastRun |-> 0, phases |-> NoPhases, configs |-> NoPhases,
   system |-> NoSystem]
\* The state file: whether it exists, whether its content is a complete JSON
\* document (intact), and the document (for a file that is not intact: the
\* document whose writing was cut short).
NoFile == [exists |-> FALSE, intact |-> FALSE, doc |-> FreshState]
NotStarted == [status |-> "not-started"]

\* stateManager.loadState() / initializeState(): the RunState of the state file,
\* a fresh one when there is no file (specification 4.3, load)
loadState(file) == IF file.exists /\ file.intact THEN file.doc ELSE FreshState

\* stateManager.getPhaseState(name): the record, a default NotStarted one when
\* absent (specification 4.3, getPhase)
getPhaseState(st, name) ==
  IF name \in DOMAIN st.phases THEN st.phases[name] ELSE NotStarted

\* stateManager.updatePhaseState(name, status, result): merges into the record
\* (specification 4.3, setPhase; 4.4: Completed with the detail payload)
\* Mutant of updatePhaseState: the status is recorded under another word than
\* the one given.
updatePhaseState_OtherStatus(st, name, status, result) ==
  [st EXCEPT !.phases = (name :> [status |-> "done", detail |-> result]) @@ st.phases]

updatePhaseState(st, name, status, result) ==
  [st EXCEPT !.phases = (name :> [status |-> status, detail |-> result]) @@ st.phases]

\* Mutant of setPhaseStatus: the record is replaced, not merged.
setPhaseStatus_Replaces(st, phaseName, status, now) ==
  [st EXCEPT !.phases = (phaseName :> (("lastUpdated" :> now) @@ status)) @@ st.phases]

\* StateManager.setPhaseStatus(phaseName, status): merges status into the record
\* and stamps it
setPhaseStatus(st, phaseName, status, now) ==
  LET old == IF phaseName \in DOMAIN st.phases THEN st.phases[phaseName] ELSE NoPhases
      new == ("lastUpdated" :> now) @@ status @@ old
  IN  [st EXCEPT !.phases = (phaseName :> new) @@ st.phases]

\* What a phase body leaves in the RunState when it resolves with value: the
\* bodies key their record by the phase identifier.
bodyEffect(st, i, value, now) ==
  IF ~value.success THEN st
  ELSE IF value.skipped THEN setPhaseStatus(st, PhaseIds[i], [skipped |-> TRUE], now)
  ELSE setPhaseStatus(st, PhaseIds[i], PhasePayloads[i], now)

\* stateManager.saveState(): stamps lastRun and writes the whole RunState
\* (specification 4.3, save)
stamped(st, now) == [st EXCEPT !.lastRun = now]
saveState(st, now) == [exists |-> TRUE, intact |-> TRUE, doc |-> stamped(st, now)]

\* ------------------------------------------------------------------------
\* VpsSetupOrchestrator
\* ------------------------------------------------------------------------
NoExit == "running"
NoDecisions == [i \in PhaseIndexes |-> "none"]
NoOutcomes == [i \in PhaseIndexes |-> "none"]
NoPending == [i \in PhaseIndexes |-> "none"]

\* Mutant of shouldSkipPhase: the completed check is missing.
shouldSkipPhase_IgnoresCompleted(i, opts, st) ==
  \/ listIncludes(opts.skipPhases, PhaseNames[i])
  \/ (isOptional(i) /\ opts.skipOptional = TRUE)

\* Mutant of shouldSkipPhase: skipOptional skips a phase whether or not it is
\* optional.
shouldSkipPhase_SkipOptionalSkipsAll(i, opts, st) ==
  \/ getPhaseState(st, PhaseNames[i]).status = "completed"
  \/ listIncludes(opts.skipPhases, PhaseNames[i])
  \/ opts.skipOptional = TRUE

shouldSkipPhase(i, opts, st) ==
  \/ getPhaseState(st, PhaseNames[i]).status = "completed"
  \/ listIncludes(opts.skipPhases, PhaseNames[i])
  \/ (isOptional(i) /\ opts.skipOptional = TRUE)

\* the process is not running
OrchIdle ==
  /\ runNo = 0
  /\ args = << >>
  /\ options = NoOptions
  /\ pc = "shell"
  /\ exitCode = NoExit
  /\ currentPhaseIndex = 1
  /\ errors = << >>
  /\ state = FreshState
  /\ disk = NoFile
  /\ loaded = FreshState
  /\ decision = NoDecisions
  /\ invoked = << >>
  /\ outcome = NoOutcomes
  /\ pending = NoPending

MaxRuns == 2

\* node vps-setup.js <argv>: new VpsSetupOrchestrator(), the argument loop,
\* and orchestrator.run(options) up to its first await
Main(argv) ==
  /\ pc \in {"shell", "exited"}
  /\ runNo < MaxRuns
  /\ runNo' = runNo + 1
  /\ args' = argv
  /\ options' = parseArguments(argv)
  /\ currentPhaseIndex' = 1
  /\ errors' = << >>
  /\ state' = FreshState
  /\ loaded' = FreshState
  /\ decision' = NoDecisions
  /\ invoked' = << >>
  /\ outcome' = NoOutcomes
  /\ pending' = NoPending
  /\ IF parseArguments(argv).help
     THEN pc' = "exited" /\ exitCode' = "0"
     ELSE pc' = "preflight" /\ exitCode' = NoExit
  /\ UNCHANGED disk
  /\ UNCHANGED <<stateVars, retryVars, classifyVars, handlerVars, compareVars>>

\* handleCriticalError(error); process.exit(1): the process ends, and with it
\* every body and timer it still held
\* (stateManager.updateErrorState(error) is taken to leave phases and file alone)
criticalExit ==
  /\ pc' = "exited"
  /\ exitCode' = "1"
  /\ pending' = NoPending

\* performPreflightChecks(): the disk space check degrades to a warning, the
\* connectivity check under withRetry('network') returns or throws
Preflight(ok) ==
  /\ pc = "preflight"
  /\ IF ok THEN pc' = "initState" /\ UNCHANGED <<exitCode, pending>> ELSE criticalExit
  /\ UNCHANGED <<runNo, args, options, currentPhaseIndex, errors, state, disk, loaded,
                 decision, invoked, outcome>>
  /\ UNCHANGED <<stateVars, retryVars, classifyVars, handlerVars, compareVars>>

InitializeState ==
  /\ pc = "initState"
  /\ state' = loadState(disk)
  /\ loaded' = loadState(disk)
  /\ pc' = "detect"
  /\ UNCHANGED <<runNo, args, options, exitCode, currentPhaseIndex, errors, disk,
                 decision, invoked, outcome>>
  /\ UNCHANGED pending
  /\ UNCHANGED <<stateVars, retryVars, classifyVars, handlerVars, compareVars>>

\* systemDetector.detectSystem() and the entry of runPhases (i = 0)
DetectSystem ==
  /\ pc = "detect"
  /\ pc' = "phases"
  /\ currentPhaseIndex' = 1
  /\ UNCHANGED <<runNo, args, options, exitCode, errors, state, disk, loaded,
                 decision, invoked, outcome>>
  /\ UNCHANGED pending
  /\ UNCHANGED <<stateVars, retryVars, classifyVars, handlerVars, compareVars>>

\* i++ and the loop test of runPhases; after the loop, run() goes on to the report
nextPhase ==
  IF currentPhaseIndex + 1 <= totalPhases
  THEN pc' = "phases" /\ currentPhaseIndex' = currentPhaseIndex + 1
  ELSE pc' = "report" /\ UNCHANGED currentPhaseIndex

\* Mutant of onSkip: the skip is recorded in the RunState.
onSkip_RecordsSkipped(st, i) ==
  updatePhaseState(st, PhaseNames[i], "skipped", [success |-> TRUE])

\* runPhases, skip branch: logger.info(...); continue;   -- the RunState after it
onSkip(st, i) == st

\* runPhases: shouldSkipPhase is true; continue
SkipPhase ==
  /\ pc = "phases"
  /\ shouldSkipPhase(currentPhaseIndex, options, state)
  /\ decision' = [decision EXCEPT ![currentPhaseIndex] = "skip"]
  /\ state' = onSkip(state, currentPhaseIndex)
  /\ nextPhase
  /\ UNCHANGED <<runNo, args, options, exitCode, errors, disk, loaded, invoked, outcome>>
  /\ UNCHANGED pending
  /\ UNCHANGED <<stateVars, retryVars, classifyVars, handlerVars, compareVars>>

\* runPhases: shouldSkipPhase is false; runPhase starts the race of
\* phase.run(options) against the timer
StartPhase ==
  /\ pc = "phases"
  /\ ~shouldSkipPhase(currentPhaseIndex, options, state)
  /\ decision' = [decision EXCEPT ![currentPhaseIndex] = "run"]
  /\ invoked' = Append(invoked, currentPhaseIndex)
  /\ pc' = "running"
  /\ UNCHANGED <<runNo, args, options, exitCode, currentPhaseIndex, errors, state, disk,
                 loaded, outcome>>
  /\ UNCHANGED pending
  /\ UNCHANGED <<stateVars, retryVars, classifyVars, handlerVars, compareVars>>

\* runPhase: what it returns when phase.run resolves with value
\*   return { success: true, result, duration }
runPhaseResolved(value) == [success |-> TRUE, result |-> value]

\* runPhase: what it returns when the race rejects with error
\*   return { success: false, error, duration }
runPhaseRejected(error) == [success |-> FALSE, error |-> error]

\* runPhases, after runPhase returned result with the RunState st: the success
\* branch, or the failure branch with the catch block of the same iteration.
\* left is what the settled race leaves behind: Promise.race neither cancels
\* phase.run(options) nor clears the timer.
afterRunPhase(result, st, left) ==
  LET name == PhaseNames[currentPhaseIndex] IN
  IF result.success
  THEN /\ state' = updatePhaseState(st, name, "completed", result)
       /\ nextPhase
       /\ pending' = [pending EXCEPT ![currentPhaseIndex] = left]
       /\ UNCHANGED <<errors, exitCode>>
  ELSE IF options.continueOnError # TRUE
       THEN \* throw new Error(`Phase ... failed: ...`): caught by the catch of
            \* the iteration, pushed again, rethrown to run()
            /\ errors' = errors \o
                 << [phase |-> name, error |-> result.error],
                    [phase |-> name,
                     error |-> [message |-> "Phase " \o name \o " failed: " \o result.error.message]] >>
            /\ criticalExit
            /\ state' = st
            /\ UNCHANGED currentPhaseIndex
       ELSE /\ errors' = Append(errors, [phase |-> name, error |-> result.error])
            /\ nextPhase
            /\ pending' = [pending EXCEPT ![currentPhaseIndex] = left]
            /\ state' = st
            /\ UNCHANGED exitCode

\* phase.run(options) resolves before the timer
BodyResolves(value) ==
  /\ pc = "running"
  /\ outcome' = [outcome EXCEPT ![currentPhaseIndex] =
                   IF value.success THEN "returned success" ELSE "returned failure"]
  /\ afterRunPhase(runPhaseResolved(value), bodyEffect(state, currentPhaseIndex, value, runNo),
                   "timer")
  /\ UNCHANGED <<runNo, args, options, disk, loaded, decision, invoked>>
  /\ UNCHANGED <<stateVars, retryVars, classifyVars, handlerVars, compareVars>>

\* phase.run(options) rejects before the timer
BodyRejects(error) ==
  /\ pc = "running"
  /\ outcome' = [outcome EXCEPT ![currentPhaseIndex] = "threw"]
  /\ afterRunPhase(runPhaseRejected(error), state, "timer")
  /\ UNCHANGED <<runNo, args, options, disk, loaded, decision, invoked>>
  /\ UNCHANGED <<stateVars, retryVars, classifyVars, handlerVars, compareVars>>

\* the user answers "abort" to the prompt of the body: process.exit(1)
UserAborts ==
  /\ pc = "running"
  /\ outcome' = [outcome EXCEPT ![currentPhaseIndex] = "aborted"]
  /\ pc' = "exited"
  /\ exitCode' = "1"
  /\ pending' = NoPending
  /\ UNCHANGED <<runNo, args, options, currentPhaseIndex, errors, state, disk, loaded,
                 decision, invoked>>
  /\ UNCHANGED <<stateVars, retryVars, classifyVars, handlerVars, compareVars>>

\* Mutant of timerArmed: runPhase awaits phase.run(options) alone.
timerArmed_NoTimer == FALSE

\* runPhase races phase.run(options) against
\*   new Promise((_, reject) => setTimeout(() => reject(...), 300000))
timerArmed == TRUE

\* the timer fires before phase.run(options) settles
TimerFires ==
  /\ pc = "running"
  /\ timerArmed
  /\ outcome' = [outcome EXCEPT ![currentPhaseIndex] = "timeout"]
  /\ afterRunPhase(runPhaseRejected(PhaseTimeoutError), state, "body")
  /\ UNCHANGED <<runNo, args, options, disk, loaded, decision, invoked>>
  /\ UNCHANGED <<stateVars, retryVars, classifyVars, handlerVars, compareVars>>

\* Mutant of onLateTimer: the late rejection is handled as a phase failure.
onLateTimer_RecordsFailure(errs, i) ==
  Append(errs, [phase |-> PhaseNames[i], error |-> PhaseTimeoutError])

\* reject(new Error('Phase timeout')) after the race has settled: the promise
\* of Promise.race keeps the value it settled with, the catch of runPhase
\* does not run again; the ledger stays as it is.
onLateTimer(errs, i) == errs

\* the timer of phase i fires after the body of phase i settled the race
LateTimerFires(i) ==
  /\ pending[i] = "timer"
  /\ pending' = [pending EXCEPT ![i] = "none"]
  /\ errors' = onLateTimer(errors, i)
  /\ UNCHANGED <<runNo, args, options, pc, exitCode, currentPhaseIndex, state, disk, loaded,
                 decision, invoked, outcome>>
  /\ UNCHANGED <<stateVars, retryVars, classifyVars, handlerVars, compareVars>>

\* the body of phase i, abandoned by the race at the timeout, goes on and
\* resolves with value: its setPhaseStatus call acts on the shared
\* StateManager; its value goes to the settled race, which ignores it
LateBodyResolves(i, value) ==
  /\ pending[i] = "body"
  /\ pending' = [pending EXCEPT ![i] = "none"]
  /\ state' = bodyEffect(state, i, value, runNo)
  /\ UNCHANGED <<runNo, args, options, pc, exitCode, currentPhaseIndex, errors, disk, loaded,
                 decision, invoked, outcome>>
  /\ UNCHANGED <<stateVars, retryVars, classifyVars, handlerVars, compareVars>>

\* generateFinalReport(): the c of "Phases completed: c/total"
\*   this.phases.length - this.errors.length
phasesCompleted(errs) == totalPhases - Len(errs)

\* generateFinalReport(): the report, then stateManager.saveState()
GenerateFinalReport ==
  /\ pc = "report"
  /\ state' = stamped(state, runNo)
  /\ disk' = saveState(state, runNo)
  /\ pc' = "finalize"
  /\ UNCHANGED <<runNo, args, options, exitCode, currentPhaseIndex, errors, loaded,
                 decision, invoked, outcome>>
  /\ UNCHANGED pending
  /\ UNCHANGED <<stateVars, retryVars, classifyVars, handlerVars, compareVars>>

\* the end of run(): stateManager.saveState(); then, in vps-setup.js,
\* .then(() => process.exit(0))
Finalize ==
  /\ pc = "finalize"
  /\ state' = stamped(state, runNo)
  /\ disk' = saveState(state, runNo)
  /\ pc' = "exited"
  /\ exitCode' = "0"
  /\ pending' = NoPending
  /\ UNCHANGED <<runNo, args, options, currentPhaseIndex, errors, loaded,
                 decision, invoked, outcome>>
  /\ UNCHANGED <<stateVars, retryVars, classifyVars, handlerVars, compareVars>>

\* What the state store's write error looks like to its caller
StateWriteError == [message |-> "EACCES: permission denied, open '.vps-setup-state.json'"]

\* Mutant of saveStateFailed: the write error is thrown to the caller.
saveStateFailed_Throws(file) == [disk |-> file, throws |-> TRUE]

\* stateManager.saveState() when the write fails (permissions, disk full): the
\* failure is logged, the file stays as it was, nothing is thrown
\* (specification 4.3, save: fails soft on write errors)
saveStateFailed(file) == [disk |-> file, throws |-> FALSE]

\* stateManager.updatePhaseState(...) when the record cannot be made: the
\* RunState stays as the body left it, nothing is thrown
\* (specification 7: state-persistence errors are recovered locally)
updatePhaseStateFailed(st) == [state |-> st, throws |-> FALSE]

\* phase.run(options) resolves before the timer and updatePhaseState fails:
\* a throw would land in the catch of the iteration (push, rethrow unless
\* continueOnError)
BodyResolvesUnrecorded(value) ==
  LET name == PhaseNames[currentPhaseIndex]
      r == updatePhaseStateFailed(bodyEffect(state, currentPhaseIndex, value, runNo))
  IN  /\ pc = "running"
      /\ outcome' = [outcome EXCEPT ![currentPhaseIndex] =
                       IF value.success THEN "returned success" ELSE "returned failure"]
      /\ state' = r.state
      /\ IF r.throws
         THEN /\ errors' = Append(errors, [phase |-> name, error |-> StateWriteError])
              /\ IF options.continueOnError # TRUE
                 THEN criticalExit /\ UNCHANGED currentPhaseIndex
                 ELSE /\ nextPhase
                      /\ pending' = [pending EXCEPT ![currentPhaseIndex] = "timer"]
                      /\ UNCHANGED exitCode
         ELSE /\ nextPhase
              /\ pending' = [pending EXCEPT ![currentPhaseIndex] = "timer"]
              /\ UNCHANGED <<errors, exitCode>>
      /\ UNCHANGED <<runNo, args, options, disk, loaded, decision, invoked>>
      /\ UNCHANGED <<stateVars, retryVars, classifyVars, handlerVars, compareVars>>

\* generateFinalReport() when its saveState() fails: a throw would leave
\* run()'s try block for handleCriticalError and process.exit(1)
FinalReportSaveFails ==
  LET r == saveStateFailed(disk) IN
  /\ pc = "report"
  /\ state' = stamped(state, runNo)
  /\ disk' = r.disk
  /\ IF r.throws THEN criticalExit ELSE pc' = "finalize" /\ UNCHANGED <<exitCode, pending>>
  /\ UNCHANGED <<runNo, args, options, currentPhaseIndex, errors, loaded,
                 decision, invoked, outcome>>
  /\ UNCHANGED <<stateVars, retryVars, classifyVars, handlerVars, compareVars>>

\* the end of run() when its saveState() fails
FinalizeSaveFails ==
  LET r == saveStateFailed(disk) IN
  /\ pc = "finalize"
  /\ state' = stamped(state, runNo)
  /\ disk' = r.disk
  /\ pc' = "exited"
  /\ exitCode' = IF r.throws THEN "1" ELSE "0"
  /\ pending' = NoPending
  /\ UNCHANGED <<runNo, args, options, currentPhaseIndex, errors, loaded,
                 decision, invoked, outcome>>
  /\ UNCHANGED <<stateVars, retryVars, classifyVars, handlerVars, compareVars>>

\* ------------------------------------------------------------------------
\* StateManager (src/utils/state.js)
\* ------------------------------------------------------------------------
\* { ...a, ...b }: the keys of both, b's value where both have the key
spread(a, b) ==
  [k \in (DOMAIN a) \cup (DOMAIN b) |-> IF k \in DOMAIN b THEN b[k] ELSE a[k]]

\* Mutant of load: a file that does not parse is taken as loaded.
load_IgnoresParseError(st, file) ==
  IF file.exists THEN [state |-> spread(st, file.doc), ret |-> TRUE]
  ELSE [state |-> st, ret |-> FALSE]

\* load(): pathExists, readJson (throws on a content that is no JSON document;
\* the catch logs), this.state = { ...this.state, ...data }
load(st, file) ==
  IF file.exists /\ file.intact THEN [state |-> spread(st, file.doc), ret |-> TRUE]
  ELSE [state |-> st, ret |-> FALSE]

\* save(), when ensureDir and writeJson succeed
save(st, now) ==
  LET new == [st EXCEPT !.lastRun = now]
  IN  [state |-> new, file |-> [exists |-> TRUE, intact |-> TRUE, doc |-> new], ret |-> TRUE]

\* Mutant of saveFailed: the failed save drops the in-memory state.
saveFailed_DropsState(st, now) == FreshState

\* save(), when ensureDir or writeJson throws: lastRun is already stamped, the
\* catch logs and returns false
saveFailed(st, now) == [st EXCEPT !.lastRun = now]

\* the file while fs.writeJson is writing doc over it, and when the write
\* stops before its end
partialFile(doc) == [exists |-> TRUE, intact |-> FALSE, doc |-> doc]

\* Mutant of getPhaseStatus: no default record.
getPhaseStatus_NoDefault(st, phaseName) ==
  IF phaseName \in DOMAIN st.phases THEN st.phases[phaseName] ELSE NoPhases

\* getPhaseStatus(phaseName) (a record object is truthy)
getPhaseStatus(st, phaseName) ==
  IF phaseName \in DOMAIN st.phases THEN st.phases[phaseName]
  ELSE [installed |-> FALSE, configured |-> FALSE]

\* setSystemInfo(info)
setSystemInfo(st, info) == [st EXCEPT !.system = spread(st.system, info)]

\* getSystemInfo()
getSystemInfo(st) == st.system

\* isFirstRun(): !this.state.lastRun
isFirstRun(st) == st.lastRun = 0

\* Inputs of the calls.
StateNames == {"zsh", "tools"}
QueryNames == StateNames \cup {"docker"}
Partials ==
  { [installed |-> TRUE], [configured |-> TRUE], [installed |-> FALSE, skipped |-> TRUE] }
SystemInfos == { [os |-> "linux", distribution |-> "ubuntu"] }

\* A state file left by an earlier process, and the same file damaged.
OldDoc ==
  [FreshState EXCEPT !.lastRun = 1,
                     !.phases = ("zsh" :> [installed |-> TRUE, lastUpdated |-> 1])]
OldFile == [exists |-> TRUE, intact |-> TRUE, doc |-> OldDoc]
CorruptFile == partialFile(OldDoc)
InitialFiles == {NoFile, OldFile, CorruptFile}

NoCall ==
  [op |-> "none", name |-> "", partial |-> NoPhases, retBool |-> FALSE,
   retRecord |-> NoPhases, before |-> FreshState, beforeDisk |-> NoFile, at |-> 0,
   sawFailedSave |-> FALSE]

\* a call of operation op entered at the current state
callOf(op) ==
  [NoCall EXCEPT !.op = op, !.before = state, !.beforeDisk = disk, !.at = clock,
                 !.sawFailedSave = smCall.sawFailedSave]

\* no StateManager call sequence
StateIdle ==
  /\ smPc = "idle"
  /\ smCall = NoCall
  /\ clock = 0

MaxCalls == 4

\* a call may start
canCall ==
  /\ smPc = "ready"
  /\ clock < OldDoc.lastRun + 1 + MaxCalls

Load ==
  /\ canCall
  /\ state' = load(state, disk).state
  /\ smCall' = [callOf("load") EXCEPT !.retBool = load(state, disk).ret]
  /\ clock' = clock + 1
  /\ UNCHANGED <<disk, smPc>>
  /\ UNCHANGED <<processVars, retryVars, classifyVars, handlerVars, compareVars>>

\* save() up to the point where fs.writeJson has opened the file and writes
SaveBegin ==
  /\ canCall
  /\ state' = save(state, clock).state
  /\ disk' = partialFile(save(state, clock).state)
  /\ smCall' = [callOf("saving") EXCEPT !.retBool = FALSE]
  /\ smPc' = "writing"
  /\ clock' = clock + 1
  /\ UNCHANGED <<processVars, retryVars, classifyVars, handlerVars, compareVars>>

\* fs.writeJson completes; save() returns true
SaveEnd ==
  /\ smPc = "writing"
  /\ disk' = save(smCall.before, smCall.at).file
  /\ smCall' = [smCall EXCEPT !.op = "save", !.retBool = save(smCall.before, smCall.at).ret]
  /\ smPc' = "ready"
  /\ UNCHANGED <<state, clock>>
  /\ UNCHANGED <<processVars, retryVars, classifyVars, handlerVars, compareVars>>

\* ensureDir or writeJson throws (EACCES before anything is written, ENOSPC
\* after a part is written); save() returns false
SaveFails(partly) ==
  /\ canCall
  /\ state' = saveFailed(state, clock)
  /\ disk' = IF partly THEN partialFile(saveFailed(state, clock)) ELSE disk
  /\ smCall' = [callOf("save") EXCEPT !.retBool = FALSE, !.sawFailedSave = TRUE]
  /\ clock' = clock + 1
  /\ UNCHANGED smPc
  /\ UNCHANGED <<processVars, retryVars, classifyVars, handlerVars, compareVars>>

\* The process dies while fs.writeJson is writing. What the file holds then is
\* not determined by the program: nothing of the write reached the disk (the
\* old file), a part of it, or all of it.
Crash(onDisk) ==
  /\ smPc = "writing"
  /\ smPc' = "crashed"
  /\ disk' = CASE onDisk = "old" -> smCall.beforeDisk
               [] onDisk = "part" -> partialFile(state)
               [] onDisk = "new" -> save(smCall.before, smCall.at).file
  /\ UNCHANGED <<state, smCall, clock>>
  /\ UNCHANGED <<processVars, retryVars, classifyVars, handlerVars, compareVars>>

\* a new process: new StateManager()
Restart ==
  /\ smPc = "crashed"
  /\ smPc' = "ready"
  /\ state' = FreshState
  /\ smCall' = [NoCall EXCEPT !.op = "constructor"]
  /\ UNCHANGED <<disk, clock>>
  /\ UNCHANGED <<processVars, retryVars, classifyVars, handlerVars, compareVars>>

SetPhaseStatus(phaseName, status) ==
  /\ canCall
  /\ state' = setPhaseStatus(state, phaseName, status, clock)
  /\ smCall' = [callOf("setPhaseStatus") EXCEPT !.name = phaseName, !.partial = status]
  /\ clock' = clock + 1
  /\ UNCHANGED <<disk, smPc>>
  /\ UNCHANGED <<processVars, retryVars, classifyVars, handlerVars, compareVars>>

\* JSON null as the value of a field
Null == [null |-> TRUE]

\* this.state.phases[phaseName]: reading a property of null is a TypeError
phasesUnreadable(st) == st.phases = Null

\* getPhaseStatus(phaseName): returns the record, or throws the TypeError
GetPhaseStatus(phaseName) ==
  /\ canCall
  /\ smCall' = IF phasesUnreadable(state)
               THEN [callOf("getPhaseStatus threw") EXCEPT !.name = phaseName]
               ELSE [callOf("getPhaseStatus") EXCEPT !.name = phaseName,
                       !.retRecord = getPhaseStatus(state, phaseName)]
  /\ clock' = clock + 1
  /\ UNCHANGED <<state, disk, smPc>>
  /\ UNCHANGED <<processVars, retryVars, classifyVars, handlerVars, compareVars>>

SetSystemInfo(info) ==
  /\ canCall
  /\ state' = setSystemInfo(state, info)
  /\ smCall' = callOf("setSystemInfo")
  /\ clock' = clock + 1
  /\ UNCHANGED <<disk, smPc>>
  /\ UNCHANGED <<processVars, retryVars, classifyVars, handlerVars, compareVars>>

GetSystemInfo ==
  /\ canCall
  /\ smCall' = [callOf("getSystemInfo") EXCEPT !.retRecord = getSystemInfo(state)]
  /\ clock' = clock + 1
  /\ UNCHANGED <<state, disk, smPc>>
  /\ UNCHANGED <<processVars, retryVars, classifyVars, handlerVars, compareVars>>

IsFirstRun ==
  /\ canCall
  /\ smCall' = [callOf("isFirstRun") EXCEPT !.retBool = isFirstRun(state)]
  /\ clock' = clock + 1
  /\ UNCHANGED <<state, disk, smPc>>
  /\ UNCHANGED <<processVars, retryVars, classifyVars, handlerVars, compareVars>>

\* Parsable state files that are not what this version writes: with a field
\* it does not know, without some top-level fields, with a system mapping
\* that has no shell, with phases null.
ForwardDocs ==
  { spread(OldDoc, [theme |-> "dark"]),
    [version |-> "1.0.0", phases |-> OldDoc.phases],
    [OldDoc EXCEPT !.system = [os |-> "linux", distribution |-> "ubuntu"]],
    [OldDoc EXCEPT !.phases = Null] }
ForwardFiles == { [exists |-> TRUE, intact |-> TRUE, doc |-> doc] : doc \in ForwardDocs }

\* ------------------------------------------------------------------------
\* ErrorHandler.withRetry
\* ------------------------------------------------------------------------
\* Mutant of loopContinues: the loop stops one attempt early.
loopContinues_OneShort(att, config) == att <= config.maxRetries

\* for (let attempt = 1; attempt <= config.maxRetries + 1; attempt++)
loopContinues(att, config) == att <= config.maxRetries + 1

\* Mutant of retryAfter: no backoff before the last attempt.
retryAfter_NotBeforeLast(att, config) == att < config.maxRetries

\* if (attempt <= config.maxRetries)
retryAfter(att, config) == att <= config.maxRetries

\* this.logger.warn(...): Logger.warn is called by withRetry (line 63) and is
\* not among the methods of the Logger bundled in src/utils/index.js; it is
\* taken to log and return.
loggerWarnReturns == TRUE

\* throw this.createEnhancedError(lastError, finalErrorInfo, context)
exhausted(err, ctx) ==
  [kind |-> "thrown", error |-> createEnhancedError(err, analyzeError(err, ctx), ctx)]

\* return await operation();   -- the invocation resolves
OperationSucceeds ==
  /\ rpc = "loop"
  /\ loopContinues(attempt, configFor(operationType))
  /\ ~invocationFails(opPlan, calls + 1)
  /\ calls' = calls + 1
  /\ rpc' = "returned"
  /\ retryResult' = [kind |-> "value", value |-> OperationValue]
  /\ UNCHANGED <<operationType, context, opPlan, attempt, lastError, sleeps>>
  /\ UNCHANGED classifyVars
  /\ UNCHANGED orchVars
  /\ UNCHANGED <<stateVars, handlerVars, compareVars>>

\* the invocation rejects with err: the catch block, up to the next await
OperationFails(err) ==
  LET config == configFor(operationType) IN
  /\ rpc = "loop"
  /\ loopContinues(attempt, config)
  /\ invocationFails(opPlan, calls + 1)
  /\ calls' = calls + 1
  /\ lastError' = err
  /\ IF retryAfter(attempt, config)
     THEN /\ loggerWarnReturns
          /\ sleeps' = Append(sleeps, calculateDelay(attempt, config))
          /\ rpc' = "sleeping"
          /\ UNCHANGED <<attempt, retryResult>>
     ELSE /\ attempt' = attempt + 1
          /\ UNCHANGED sleeps
          /\ IF loopContinues(attempt + 1, config)
             THEN /\ rpc' = "loop"
                  /\ UNCHANGED retryResult
             ELSE /\ rpc' = "thrown"
                  /\ retryResult' = exhausted(err, context)
  /\ UNCHANGED <<operationType, context, opPlan>>
  /\ UNCHANGED classifyVars
  /\ UNCHANGED orchVars
  /\ UNCHANGED <<stateVars, handlerVars, compareVars>>

\* await this.sleep(delay) resolves: attempt++ and the loop test
SleepDone ==
  LET config == configFor(operationType) IN
  /\ rpc = "sleeping"
  /\ attempt' = attempt + 1
  /\ IF loopContinues(attempt + 1, config)
     THEN /\ rpc' = "loop"
          /\ UNCHANGED retryResult
     ELSE /\ rpc' = "thrown"
          /\ retryResult' = exhausted(lastError, context)
  /\ UNCHANGED <<operationType, context, opPlan, calls, lastError, sleeps>>
  /\ UNCHANGED classifyVars
  /\ UNCHANGED orchVars
  /\ UNCHANGED <<stateVars, handlerVars, compareVars>>

\* this.errorCounts = new Map()
NoCounts == [k \in {} |-> 0]

\* recordError(category, context):
\*   const key = `${category}:${context.operation || 'unknown'}`;
\*   this.errorCounts.set(key, (this.errorCounts.get(key) || 0) + 1);
recordError(counts, category, ctx) ==
  LET key == category \o ":" \o
               (IF ctx.operation # Undefined THEN ctx.operation ELSE "unknown")
  IN  (key :> (IF key \in DOMAIN counts THEN counts[key] ELSE 0) + 1) @@ counts

RECURSIVE sumCounts(_, _)
sumCounts(counts, keys) ==
  IF keys = {} THEN 0
  ELSE LET k == CHOOSE x \in keys : TRUE
       IN  counts[k] + sumCounts(counts, keys \ {k})

\* generateErrorReport(): totalErrors is the sum of the counts of
\* getErrorStatistics(), the tally regrouped by category and operation
generateErrorReport(counts) ==
  [totalErrors |-> sumCounts(counts, DOMAIN counts), errorBreakdown |-> counts]

\* no call of withGracefulDegradation; the tally as the constructor made it
NoDegrade == [stage |-> "idle"]
\* no call of installPackage
NoInstall == [stage |-> "idle"]
HandlerIdle ==
  /\ wgd = NoDegrade
  /\ errorCounts = NoCounts
  /\ install = NoInstall

\* no two processes are compared
NoComparison == [stage |-> "idle"]
CompareIdle == twoRuns = NoComparison

ClassifyIdle ==
  /\ anError = NoError
  /\ anContext = [operation |-> Undefined, phase |-> Undefined]
  /\ errorInfo = NoInfo

RetryIdle ==
  /\ operationType = "default"
  /\ context = [operation |-> Undefined, phase |-> Undefined]
  /\ opPlan = [alwaysFails |-> FALSE, failFirst |-> 0]
  /\ rpc = "idle"
  /\ attempt = 1
  /\ calls = 0
  /\ lastError = NoError
  /\ sleeps = << >>
  /\ retryResult = NoResult

\* withRetry(operation, operationType, context) has been called
InitRetry ==
  /\ operationType \in OperationTypes \cup {"custom"}
  /\ context \in Contexts
  /\ opPlan \in OpPlans
  /\ rpc = "loop"
  /\ attempt = 1
  /\ calls = 0
  /\ lastError = NoError
  /\ sleeps = << >>
  /\ retryResult = NoResult
  /\ ClassifyIdle
  /\ OrchIdle
  /\ StateIdle
  /\ HandlerIdle
  /\ CompareIdle

NextRetry ==
  \/ OperationSucceeds
  \/ \E err \in RetryErrors : OperationFails(err)
  \/ SleepDone

SpecRetry == InitRetry /\ [][NextRetry]_vars

\* ------------------------------------------------------------------------
\* ErrorHandler.withGracefulDegradation
\* ------------------------------------------------------------------------
\* What analyzeError reads of a VpsSetupError made by createEnhancedError: its
\* message is the summary; createEnhancedError sets errorCode, neither code
\* nor exitCode.
asThrown(e) == [message |-> e.message, code |-> Undefined, exitCode |-> Undefined]

\* { ...context, operation: 'fallback' }
fallbackContext(ctx) == [ctx EXCEPT !.operation = "fallback"]

\* throw this.createEnhancedError(fallbackError,
\*                                this.analyzeError(fallbackError, context), context)
\* fallbackError is the error withRetry threw for the fallback
bothFailed(fallbackError, ctx) ==
  [kind |-> "thrown",
   error |-> createEnhancedError(fallbackError, analyzeError(asThrown(fallbackError), ctx), ctx)]

\* The errors the two operations throw: those of RetryErrors and a command the
\* machine does not have.
DegradeErrors ==
  RetryErrors \cup
  { [message |-> "df: command not found", code |-> Undefined, exitCode |-> "127"] }

\* the first withRetry call of withGracefulDegradation returned: its value is
\* returned, the fallback is not touched
PrimaryReturns ==
  /\ wgd.stage = "primary"
  /\ rpc = "returned"
  /\ wgd' = [wgd EXCEPT !.stage = "done", !.primary = retryResult, !.primaryCalls = calls,
                        !.result = retryResult]
  /\ UNCHANGED <<errorCounts, install>>
  /\ UNCHANGED <<orchVars, stateVars, retryVars, classifyVars, compareVars>>

\* the first withRetry call threw: catch, logger.warn, and
\* withRetry(fallbackOperation, 'default', { ...context, operation: 'fallback' })
PrimaryThrows ==
  /\ wgd.stage = "primary"
  /\ rpc = "thrown"
  /\ loggerWarnReturns
  /\ wgd' = [wgd EXCEPT !.stage = "fallback", !.primary = retryResult, !.primaryCalls = calls]
  /\ operationType' = "default"
  /\ context' = fallbackContext(wgd.context)
  /\ opPlan' = wgd.fallbackOperation
  /\ rpc' = "loop"
  /\ attempt' = 1
  /\ calls' = 0
  /\ lastError' = NoError
  /\ sleeps' = << >>
  /\ retryResult' = NoResult
  /\ UNCHANGED <<errorCounts, install>>
  /\ UNCHANGED <<orchVars, stateVars, classifyVars, compareVars>>

\* the second withRetry call returned
FallbackReturns ==
  /\ wgd.stage = "fallback"
  /\ rpc = "returned"
  /\ wgd' = [wgd EXCEPT !.stage = "done", !.fallback = retryResult, !.result = retryResult]
  /\ UNCHANGED <<errorCounts, install>>
  /\ UNCHANGED <<orchVars, stateVars, retryVars, classifyVars, compareVars>>

\* the second withRetry call threw: the inner catch
FallbackThrows ==
  /\ wgd.stage = "fallback"
  /\ rpc = "thrown"
  /\ wgd' = [wgd EXCEPT !.stage = "done", !.fallback = retryResult,
                        !.result = bothFailed(retryResult.error, wgd.context)]
  /\ UNCHANGED <<errorCounts, install>>
  /\ UNCHANGED <<orchVars, stateVars, retryVars, classifyVars, compareVars>>

\* withGracefulDegradation(primaryOperation, fallbackOperation, context) has
\* been called and has called withRetry(primaryOperation, 'default', context)
InitDegrade ==
  /\ \E ctx \in Contexts, fb \in OpPlans :
       /\ wgd = [stage |-> "primary", context |-> ctx, fallbackOperation |-> fb,
                 primary |-> NoResult, primaryCalls |-> 0, fallback |-> NoResult,
                 result |-> NoResult]
       /\ context = ctx
  /\ errorCounts = NoCounts
  /\ install = NoInstall
  /\ CompareIdle
  /\ operationType = "default"
  /\ opPlan \in OpPlans
  /\ rpc = "loop"
  /\ attempt = 1
  /\ calls = 0
  /\ lastError = NoError
  /\ sleeps = << >>
  /\ retryResult = NoResult
  /\ ClassifyIdle
  /\ OrchIdle
  /\ StateIdle

NextDegrade ==
  \/ OperationSucceeds
  \/ \E err \in DegradeErrors : OperationFails(err)
  \/ SleepDone
  \/ PrimaryReturns
  \/ PrimaryThrows
  \/ FallbackReturns
  \/ FallbackThrows

SpecDegrade == InitDegrade /\ [][NextDegrade]_vars

\* withRetry(operation, type, ctx) is entered with an operation that behaves as plan
enterWithRetry(type, ctx, plan) ==
  /\ operationType' = type
  /\ context' = ctx
  /\ opPlan' = plan
  /\ rpc' = "loop"
  /\ attempt' = 1
  /\ calls' = 0
  /\ lastError' = NoError
  /\ sleeps' = << >>
  /\ retryResult' = NoResult

\* ------------------------------------------------------------------------
\* CommandRunner.installPackage: withRetry('package-install') around
\* runSudo -> run, which is withRetry('command-execution') around execa
\* ------------------------------------------------------------------------
\* the context arguments of the two withRetry calls
installContext == [operation |-> "install package zsh", phase |-> Undefined]
runContext == [operation |-> "sudo apt install zsh -y", phase |-> Undefined]

\* the command after it has been executed n times
planAfter(plan, n) ==
  [plan EXCEPT !.failFirst = IF plan.failFirst > n THEN plan.failFirst - n ELSE 0]

\* installPackage(packageName) has been called: the outer withRetry has
\* invoked its operation, which has called run(), which has entered the inner
\* withRetry
InitInstall ==
  /\ \E plan \in OpPlans :
       /\ install = [stage |-> "outer", command |-> plan, attempt |-> 1, executions |-> 0,
                     lastError |-> NoError, sleeps |-> << >>, result |-> NoResult]
       /\ opPlan = plan
  /\ operationType = "command-execution"
  /\ context = runContext
  /\ rpc = "loop"
  /\ attempt = 1
  /\ calls = 0
  /\ lastError = NoError
  /\ sleeps = << >>
  /\ retryResult = NoResult
  /\ wgd = NoDegrade
  /\ errorCounts = NoCounts
  /\ CompareIdle
  /\ ClassifyIdle
  /\ OrchIdle
  /\ StateIdle

\* run() returned its output { success: true, ... }: the operation of
\* installPackage returns it, and the outer withRetry returns it
InstallRunReturns ==
  /\ install.stage = "outer"
  /\ rpc = "returned"
  /\ install' = [install EXCEPT !.stage = "done", !.executions = @ + calls,
                                !.result = retryResult]
  /\ UNCHANGED <<wgd, errorCounts>>
  /\ UNCHANGED <<orchVars, stateVars, retryVars, classifyVars, compareVars>>

\* the outer loop after attempt++: the next invocation of the operation, or
\* throw this.createEnhancedError(lastError, finalErrorInfo, context)
installNext(error, executed) ==
  IF loopContinues(install.attempt + 1, configFor("package-install"))
  THEN /\ install' = [install EXCEPT !.stage = "outer", !.attempt = @ + 1,
                                     !.executions = executed, !.lastError = error]
       /\ enterWithRetry("command-execution", runContext, planAfter(install.command, executed))
  ELSE /\ install' = [install EXCEPT !.stage = "done", !.attempt = @ + 1,
                                     !.executions = executed, !.lastError = error,
                                     !.result = exhausted(error, installContext)]
       /\ UNCHANGED retryVars

\* run() threw the error of its exhausted withRetry: the catch block of the
\* outer withRetry, up to its next await
InstallRunThrows ==
  LET config == configFor("package-install")
      error == asThrown(retryResult.error)
  IN
  /\ install.stage = "outer"
  /\ rpc = "thrown"
  /\ IF retryAfter(install.attempt, config)
     THEN /\ loggerWarnReturns
          /\ install' = [install EXCEPT !.stage = "sleeping",
                                        !.executions = @ + calls,
                                        !.lastError = error,
                                        !.sleeps = Append(@, calculateDelay(install.attempt, config))]
          /\ UNCHANGED retryVars
     ELSE installNext(error, install.executions + calls)
  /\ UNCHANGED <<wgd, errorCounts>>
  /\ UNCHANGED <<orchVars, stateVars, classifyVars, compareVars>>

\* await this.sleep(delay) of the outer withRetry resolves
InstallSleepDone ==
  /\ install.stage = "sleeping"
  /\ installNext(install.lastError, install.executions)
  /\ UNCHANGED <<wgd, errorCounts>>
  /\ UNCHANGED <<orchVars, stateVars, classifyVars, compareVars>>

NextInstall ==
  \/ OperationSucceeds
  \/ \E err \in RetryErrors : OperationFails(err)
  \/ SleepDone
  \/ InstallRunReturns
  \/ InstallRunThrows
  \/ InstallSleepDone

SpecInstall == InitInstall /\ [][NextInstall]_vars

\* ------------------------------------------------------------------------
\* ErrorHandler.analyzeError, called on its own
\* ------------------------------------------------------------------------
AnalyzeError ==
  /\ errorInfo = NoInfo
  /\ anError # NoError
  /\ errorInfo' = analyzeError(anError, anContext)
  /\ UNCHANGED <<anError, anContext>>
  /\ UNCHANGED retryVars
  /\ UNCHANGED orchVars
  /\ UNCHANGED <<stateVars, handlerVars, compareVars>>

InitClassify ==
  /\ anError \in Errors
  /\ anContext \in Contexts
  /\ errorInfo = NoInfo
  /\ RetryIdle
  /\ OrchIdle
  /\ StateIdle
  /\ HandlerIdle
  /\ CompareIdle

NextClassify == AnalyzeError

SpecClassify == InitClassify /\ [][NextClassify]_vars


\* ------------------------------------------------------------------------
\* The StateManager on its own: a sequence of calls on a new StateManager
\* ------------------------------------------------------------------------
\* the process fields of the orchestrator, not running
ProcessIdle ==
  /\ runNo = 0
  /\ args = << >>
  /\ options = NoOptions
  /\ pc = "shell"
  /\ exitCode = NoExit
  /\ currentPhaseIndex = 1
  /\ errors = << >>
  /\ loaded = FreshState
  /\ decision = NoDecisions
  /\ invoked = << >>
  /\ outcome = NoOutcomes
  /\ pending = NoPending

InitState ==
  /\ state = FreshState
  /\ disk \in InitialFiles
  /\ smPc = "ready"
  /\ smCall = [NoCall EXCEPT !.op = "constructor"]
  /\ clock = OldDoc.lastRun + 1
  /\ ProcessIdle
  /\ RetryIdle
  /\ ClassifyIdle
  /\ HandlerIdle
  /\ CompareIdle

NextState ==
  \/ Load
  \/ SaveBegin
  \/ SaveEnd
  \/ \E partly \in BOOLEAN : SaveFails(partly)
  \/ \E onDisk \in {"old", "part", "new"} : Crash(onDisk)
  \/ Restart
  \/ \E phaseName \in StateNames, status \in Partials : SetPhaseStatus(phaseName, status)
  \/ \E phaseName \in QueryNames : GetPhaseStatus(phaseName)
  \/ \E info \in SystemInfos : SetSystemInfo(info)

SpecState == InitState /\ [][NextState]_vars

\* A new StateManager that finds one of the files above: load() and the getters
InitLoad ==
  /\ state = FreshState
  /\ disk \in ForwardFiles
  /\ smPc = "ready"
  /\ smCall = [NoCall EXCEPT !.op = "constructor"]
  /\ clock = OldDoc.lastRun + 1
  /\ ProcessIdle
  /\ RetryIdle
  /\ ClassifyIdle
  /\ HandlerIdle
  /\ CompareIdle

NextLoad ==
  \/ Load
  \/ \E phaseName \in QueryNames : GetPhaseStatus(phaseName)
  \/ GetSystemInfo
  \/ IsFirstRun

SpecLoad == InitLoad /\ [][NextLoad]_vars

\* ------------------------------------------------------------------------
\* The program: runs of vps-setup.js
\* ------------------------------------------------------------------------
Init ==
  /\ OrchIdle
  /\ StateIdle
  /\ RetryIdle
  /\ ClassifyIdle
  /\ HandlerIdle
  /\ CompareIdle

Next ==
  \/ \E argv \in CommandLines : Main(argv)
  \/ \E ok \in BOOLEAN : Preflight(ok)
  \/ InitializeState
  \/ DetectSystem
  \/ SkipPhase
  \/ StartPhase
  \/ \E value \in BodyValues : BodyResolves(value)
  \/ \E error \in BodyErrors : BodyRejects(error)
  \/ TimerFires
  \/ UserAborts
  \/ GenerateFinalReport
  \/ Finalize

Spec == Init /\ [][Next]_vars

\* One run of the command, with the events that follow a settled race: the
\* timer that fires after its phase finished, the abandoned body that resolves
\* after its timeout.
RaceCommandLines ==
  { << >>, <<"--continue-on-error">>, <<"--continue-on-error", "--skip-optional">> }

FirstRun == \E argv \in RaceCommandLines : runNo = 0 /\ Main(argv)

NextRace ==
  \/ FirstRun
  \/ Preflight(TRUE)
  \/ InitializeState
  \/ DetectSystem
  \/ SkipPhase
  \/ StartPhase
  \/ \E value \in BodyValues : BodyResolves(value)
  \/ \E error \in BodyErrors : BodyRejects(error)
  \/ TimerFires
  \/ UserAborts
  \/ \E i \in PhaseIndexes : LateTimerFires(i)
  \/ \E i \in PhaseIndexes, value \in BodyValues : LateBodyResolves(i, value)
  \/ GenerateFinalReport
  \/ Finalize

SpecRace == Init /\ [][NextRace]_vars

\* ------------------------------------------------------------------------
\* One run of the command with performPreflightChecks step by step
\* ------------------------------------------------------------------------
\* the locals of a finished withRetry / withGracefulDegradation call are gone
callsOver ==
  /\ operationType' = "default"
  /\ context' = [operation |-> Undefined, phase |-> Undefined]
  /\ opPlan' = [alwaysFails |-> FALSE, failFirst |-> 0]
  /\ rpc' = "idle"
  /\ attempt' = 1
  /\ calls' = 0
  /\ lastError' = NoError
  /\ sleeps' = << >>
  /\ retryResult' = NoResult
  /\ wgd' = NoDegrade

\* performPreflightChecks(): withGracefulDegradation(<df -h />, <warn>,
\* { operation: 'disk space check' }) is called. The primary fails as primary
\* says; the fallback is one logger.warn call, which returns or, Logger having
\* no warn method in src, throws at every invocation.
PreflightDiskCheck(primary, fallback) ==
  /\ pc = "preflight"
  /\ pc' = "preflight: disk space"
  /\ wgd' = [stage |-> "primary",
             context |-> [operation |-> "disk space check", phase |-> Undefined],
             fallbackOperation |-> fallback,
             primary |-> NoResult, primaryCalls |-> 0, fallback |-> NoResult,
             result |-> NoResult]
  /\ enterWithRetry("default", [operation |-> "disk space check", phase |-> Undefined], primary)
  /\ UNCHANGED <<errorCounts, install>>
  /\ UNCHANGED <<runNo, args, options, exitCode, currentPhaseIndex, errors, state, disk,
                 loaded, decision, invoked, outcome, pending>>
  /\ UNCHANGED <<stateVars, classifyVars, compareVars>>

\* withGracefulDegradation threw: performPreflightChecks throws to run()
PreflightDiskCheckThrows ==
  /\ pc = "preflight: disk space"
  /\ wgd.stage = "done"
  /\ wgd.result.kind = "thrown"
  /\ criticalExit
  /\ callsOver
  /\ UNCHANGED <<errorCounts, install>>
  /\ UNCHANGED <<runNo, args, options, currentPhaseIndex, errors, state, disk,
                 loaded, decision, invoked, outcome>>
  /\ UNCHANGED <<stateVars, classifyVars, compareVars>>

\* withGracefulDegradation returned: withRetry(<ping -c 1 8.8.8.8>, 'network',
\* { operation: 'internet connectivity check' }) is called
PreflightConnectivityCheck(ping) ==
  /\ pc = "preflight: disk space"
  /\ wgd.stage = "done"
  /\ wgd.result.kind = "value"
  /\ pc' = "preflight: connectivity"
  /\ wgd' = NoDegrade
  /\ enterWithRetry("network",
                    [operation |-> "internet connectivity check", phase |-> Undefined], ping)
  /\ UNCHANGED <<errorCounts, install>>
  /\ UNCHANGED <<runNo, args, options, exitCode, currentPhaseIndex, errors, state, disk,
                 loaded, decision, invoked, outcome, pending>>
  /\ UNCHANGED <<stateVars, classifyVars, compareVars>>

\* the withRetry call of the connectivity check returned or threw
PreflightDone ==
  /\ pc = "preflight: connectivity"
  /\ rpc \in {"returned", "thrown"}
  /\ IF rpc = "returned"
     THEN pc' = "initState" /\ UNCHANGED <<exitCode, pending>>
     ELSE criticalExit
  /\ callsOver
  /\ UNCHANGED <<errorCounts, install>>
  /\ UNCHANGED <<runNo, args, options, currentPhaseIndex, errors, state, disk,
                 loaded, decision, invoked, outcome>>
  /\ UNCHANGED <<stateVars, classifyVars, compareVars>>

\* The errors of the two checks: of a failed command, and the one the
\* connectivity check throws itself.
PreflightErrors ==
  { [message |-> "df: command not found", code |-> Undefined, exitCode |-> "127"],
    [message |-> "Internet connectivity check failed", code |-> Undefined,
     exitCode |-> Undefined] }

\* The operations of the checks: they succeed, fail once, or fail always.
PreflightPlans ==
  { [alwaysFails |-> FALSE, failFirst |-> 0],
    [alwaysFails |-> FALSE, failFirst |-> 1],
    [alwaysFails |-> TRUE, failFirst |-> 0] }

LiveCommandLines == { << >>, <<"--continue-on-error", "--skip-optional">> }

StartRun == \E argv \in LiveCommandLines : runNo = 0 /\ Main(argv)

\* what the user and the phase bodies do, or never do
EnvironmentSteps ==
  \/ StartRun
  \/ \E value \in BodyValues : BodyResolves(value)
  \/ \E error \in BodyErrors : BodyRejects(error)
  \/ UserAborts

\* what the process does by itself: its own code, the settling of the
\* operations under withRetry (commands run with a timeout), every sleep and
\* every timer
ProcessSteps ==
  \/ \E primary \in PreflightPlans, fallback \in PreflightPlans :
       PreflightDiskCheck(primary, fallback)
  \/ OperationSucceeds
  \/ \E err \in PreflightErrors : OperationFails(err)
  \/ SleepDone
  \/ PrimaryReturns
  \/ PrimaryThrows
  \/ FallbackReturns
  \/ FallbackThrows
  \/ PreflightDiskCheckThrows
  \/ \E ping \in PreflightPlans : PreflightConnectivityCheck(ping)
  \/ PreflightDone
  \/ InitializeState
  \/ DetectSystem
  \/ SkipPhase
  \/ StartPhase
  \/ TimerFires
  \/ GenerateFinalReport
  \/ Finalize

NextLive == EnvironmentSteps \/ ProcessSteps

SpecLive == Init /\ [][NextLive]_vars /\ WF_vars(ProcessSteps)

\* One run of the command on a machine where recording and saving the
\* RunState can fail at every attempt.
NextPersist ==
  \/ FirstRun
  \/ Preflight(TRUE)
  \/ InitializeState
  \/ DetectSystem
  \/ SkipPhase
  \/ StartPhase
  \/ \E value \in BodyValues : BodyResolves(value)
  \/ \E value \in BodyValues : BodyResolvesUnrecorded(value)
  \/ \E error \in BodyErrors : BodyRejects(error)
  \/ TimerFires
  \/ UserAborts
  \/ GenerateFinalReport
  \/ FinalReportSaveFails
  \/ Finalize
  \/ FinalizeSaveFails

SpecPersist == Init /\ [][NextPersist]_vars

\* ------------------------------------------------------------------------
\* Claims about the orchestrator (specification Spec)
\* ------------------------------------------------------------------------
\* the persisted status of phase i, as this run loaded it, is Completed
persistedCompleted(i) == getPhaseState(loaded, PhaseNames[i]).status = "completed"

\* phase i is named in options.forcePhases, by its name or by its identifier
forced(i) ==
  \/ listIncludes(options.forcePhases, PhaseNames[i])
  \/ listIncludes(options.forcePhases, PhaseIds[i])

\* the body of phase i was invoked in this run
wasInvoked(i) == \E k \in 1..Len(invoked) : invoked[k] = i

\* the error ledger holds a record of phase i
inLedger(i) == \E k \in 1..Len(errors) : errors[k].phase = PhaseNames[i]

\* the body of phase i failed in this run: returned failure, thrown error or timeout
phaseFailed(i) == outcome[i] \in {"returned failure", "threw", "timeout"}

\* the run ended in the success path
endedInSuccess == pc \in {"report", "finalize"} \/ (pc = "exited" /\ exitCode = "0")

\* C1: on a run, a phase whose persisted status is Completed and whose name is
\* in no force list gets the skip decision 'skip' and its body is never
\* invoked in that run, whatever the other phases and their statuses are.
C1_CompletedPhaseIsSkipped ==
  \A i \in PhaseIndexes :
    (persistedCompleted(i) /\ ~forced(i)) =>
      /\ decision[i] \in {"none", "skip"}
      /\ ~wasInvoked(i)

\* A second run ended: it skipped a Completed phase and invoked the body of
\* another phase, which was not Completed.
C1_Witness ==
  /\ pc = "exited"
  /\ exitCode = "0"
  /\ \E i, j \in PhaseIndexes :
       /\ persistedCompleted(i) /\ ~forced(i) /\ decision[i] = "skip"
       /\ ~persistedCompleted(j) /\ wasInvoked(j)

\* C2: when a phase whose persisted status is Completed is named in
\* --force-phases, or the run was started with --reset-state, the phase is not
\* skipped: once the skip decision is taken it is 'run' and the body is invoked.
C2_ForceOrResetOverridesSkip ==
  \A i \in PhaseIndexes :
    (persistedCompleted(i) /\ (forced(i) \/ options.resetState) /\ decision[i] # "none") =>
      /\ decision[i] = "run"
      /\ wasInvoked(i)

\* C3: when a phase body returns {success: false, error}, the phase is Failed:
\* the ledger holds an ErrorRecord of it, it is not recorded as Completed, and
\* the failure policy applies (without continue-on-error the run ends with
\* exit code 1 and no later phase is reached).
C3_ReturnedFailureIsFailed ==
  \A i \in PhaseIndexes :
    outcome[i] = "returned failure" =>
      /\ inLedger(i)
      /\ getPhaseState(state, PhaseNames[i]).status # "completed"
      /\ ~options.continueOnError =>
           /\ pc = "exited" /\ exitCode = "1"
           /\ \A j \in PhaseIndexes : j > i => decision[j] = "none"

\* C4: with continueOnError not requested, once a phase failed no later phase
\* has its body invoked in that run, and the run ends in the failure path.
C4_FailureAbortsTheRun ==
  \A i \in PhaseIndexes :
    (~options.continueOnError /\ phaseFailed(i)) =>
      /\ \A j \in PhaseIndexes : j > i => ~wasInvoked(j)
      /\ ~endedInSuccess

\* C5: with continueOnError = true, a phase that failed (returned failure,
\* thrown error or timeout) is in the error ledger, and the loop goes on: when
\* the run has ended, not by the user's abort, every later phase got its skip decision, and those not
\* skipped had their body invoked, in declared order.
C5_ContinueOnErrorRecordsAndContinues ==
  \A i \in PhaseIndexes :
    (options.continueOnError /\ phaseFailed(i)) =>
      /\ inLedger(i)
      /\ (pc = "exited" /\ \A j \in PhaseIndexes : outcome[j] # "aborted") =>
           \A j \in PhaseIndexes : j > i =>
             /\ decision[j] # "none"
             /\ decision[j] = "run" => wasInvoked(j)
      /\ \A k, l \in 1..Len(invoked) : k < l => invoked[k] < invoked[l]

\* C22: the exit code is 0 only on full success: it is not 0 when some phase
\* of the run ended in a failure (thrown error or timeout of its body), be it
\* in a run with --continue-on-error that went on to the later phases, nor
\* when the user chose 'abort'.
C22_ExitZeroOnlyOnFullSuccess ==
  (pc = "exited" /\ runNo > 0) =>
    /\ (\E i \in PhaseIndexes : outcome[i] \in {"threw", "timeout"}) => exitCode # "0"
    /\ (\E i \in PhaseIndexes : outcome[i] = "aborted") => exitCode # "0"

\* ------------------------------------------------------------------------
\* Claims about the race of runPhase (specification SpecRace)
\* ------------------------------------------------------------------------
\* the ledger holds the timeout error for phase i
hasTimeoutRecord(i) ==
  \E k \in 1..Len(errors) :
    errors[k].phase = PhaseNames[i] /\ errors[k].error = PhaseTimeoutError

\* the ledger holds, for phase i, an error its body rejected with
hasBodyErrorRecord(i) ==
  \E k \in 1..Len(errors) :
    errors[k].phase = PhaseNames[i] /\ errors[k].error \in BodyErrors

\* the record the bodies keep under the identifier of phase i
idRecord(st, i) ==
  IF PhaseIds[i] \in DOMAIN st.phases THEN st.phases[PhaseIds[i]] ELSE NoPhases

\* the phase bodies that are executing
executing ==
  {i \in PhaseIndexes : pending[i] = "body"}
    \cup (IF pc = "running" THEN {currentPhaseIndex} ELSE {})

\* C11: the first of the two events decides. When the timer fires first the
\* failure is there at the timeout, while the body is still running, and it
\* stays when the body resolves later; when the body settles first the
\* outcome is the body's (its value, or its error) and the timer that fires
\* later adds nothing.
C11_FirstEventDecides ==
  \A i \in PhaseIndexes :
    /\ pending[i] = "body" => outcome[i] = "timeout"
    /\ pending[i] = "timer" => outcome[i] \in {"returned success", "returned failure", "threw"}
    /\ outcome[i] = "timeout" =>
         /\ hasTimeoutRecord(i)
         /\ ~hasBodyErrorRecord(i)
         /\ getPhaseState(state, PhaseNames[i]).status # "completed"
    /\ outcome[i] \in {"returned success", "returned failure"} =>
         /\ ~hasTimeoutRecord(i)
         /\ getPhaseState(state, PhaseNames[i]).detail.result \in BodyValues
    /\ outcome[i] = "threw" =>
         /\ ~hasTimeoutRecord(i)
         /\ hasBodyErrorRecord(i)

\* The process is still running; one phase timed out and its body resolved
\* afterwards, another phase succeeded and its timer fired afterwards.
C11_Witness ==
  /\ pc \in {"phases", "running", "report", "finalize"}
  /\ \E i, j \in PhaseIndexes :
       /\ outcome[i] = "timeout" /\ pending[i] = "none"
       /\ outcome[j] = "returned success" /\ pending[j] = "none"

\* C13: after a timeout was reported for a phase, its abandoned body changes
\* nothing: the record the body keeps in the RunState is as it was loaded, and
\* the phase stays failed (in the ledger, not completed).
C13_AbandonedBodyChangesNothing ==
  \A i \in PhaseIndexes :
    outcome[i] = "timeout" =>
      /\ idRecord(state, i) = idRecord(loaded, i)
      /\ hasTimeoutRecord(i)
      /\ getPhaseState(state, PhaseNames[i]).status # "completed"

\* C14: phases run one after the other in declared order: a body is invoked
\* only after every phase before it reached a terminal state, and at most one
\* body is executing at any time.
C14_StrictlySequential ==
  /\ \A k, l \in 1..Len(invoked) : k < l => invoked[k] < invoked[l]
  /\ \A i \in PhaseIndexes :
       decision[i] # "none" =>
         \A j \in PhaseIndexes : j < i => (decision[j] = "skip" \/ outcome[j] # "none")
  /\ Cardinality(executing) <= 1

\* ------------------------------------------------------------------------
\* Claims about persistence failures in a run (specification SpecPersist)
\* ------------------------------------------------------------------------
\* no body of this run failed: each one was not started or returned success
noBodyFailed == \A i \in PhaseIndexes : outcome[i] \in {"none", "returned success"}

\* the body of phase i succeeded and its record could not be made
unrecorded(i) == outcome[i] = "returned success" /\ PhaseNames[i] \notin DOMAIN state.phases

denotesNotStarted(r) ==
  /\ "installed" \in DOMAIN r /\ r.installed = FALSE
  /\ "configured" \in DOMAIN r /\ r.configured = FALSE
  /\ "completed" \in DOMAIN r => r.completed = FALSE
  /\ "status" \in DOMAIN r => r.status # "completed"

\* the file was missing or did not parse when the last call was entered
noUsableFile == ~smCall.beforeDisk.exists \/ ~smCall.beforeDisk.intact

\* C15: load() on a missing or corrupt state file returns false (it does not
\* throw) and leaves the state as it was; on a new StateManager that is the
\* fresh default RunState: isFirstRun() is true and phases is empty.
C15_LoadFailsSoft ==
  (smCall.op = "load" /\ noUsableFile) =>
    /\ smCall.retBool = FALSE
    /\ state = smCall.before
    /\ smCall.before = FreshState => (isFirstRun(state) /\ DOMAIN state.phases = {})

\* load() of a corrupt file on a new StateManager has returned.
C15_Witness ==
  /\ smCall.op = "load"
  /\ smCall.beforeDisk = CorruptFile
  /\ smCall.before = FreshState
  /\ isFirstRun(state)

\* C16: a save() that fails returns false and loses nothing of the in-memory
\* state: every phase record and the system facts read as before it; and a
\* save() that succeeds, also after a failed one, persists the whole state.
C16_FailedSaveKeepsMemory ==
  /\ (smCall.op = "save" /\ ~smCall.retBool) =>
       /\ \A n \in QueryNames : getPhaseStatus(state, n) = getPhaseStatus(smCall.before, n)
       /\ getSystemInfo(state) = getSystemInfo(smCall.before)
  /\ (smCall.op = "save" /\ smCall.retBool) =>
       /\ disk = [exists |-> TRUE, intact |-> TRUE, doc |-> state]
       /\ state.phases = smCall.before.phases
       /\ getSystemInfo(state) = getSystemInfo(smCall.before)

\* A save() succeeded after an earlier one failed, and it persisted a phase
\* record and system facts set before.
C16_Witness ==
  /\ smCall.op = "save"
  /\ smCall.retBool
  /\ smCall.sawFailedSave
  /\ "tools" \in DOMAIN disk.doc.phases
  /\ disk.doc.system.os = "linux"

\* C17: when the process crashes during a save(), the state file is the
\* complete previous snapshot or the complete new one.
C17_CrashLeavesCompleteSnapshot ==
  smPc = "crashed" =>
    \/ disk = smCall.beforeDisk
    \/ disk = [exists |-> TRUE, intact |-> TRUE, doc |-> state]

C20_SetThenGetMerges ==
  smCall.op = "setPhaseStatus" =>
    LET r == getPhaseStatus(state, smCall.name)
        old == IF smCall.name \in DOMAIN smCall.before.phases
               THEN smCall.before.phases[smCall.name] ELSE NoPhases
    IN  /\ \A f \in DOMAIN smCall.partial : f \in DOMAIN r /\ r[f] = smCall.partial[f]
        /\ \A f \in (DOMAIN old) \ (DOMAIN smCall.partial \cup {"lastUpdated"}) :
             f \in DOMAIN r /\ r[f] = old[f]
        /\ "lastUpdated" \in DOMAIN r /\ r.lastUpdated >= smCall.at
        /\ \A n \in QueryNames \ {smCall.name} :
             getPhaseStatus(state, n) = getPhaseStatus(smCall.before, n)
        /\ DOMAIN state.phases = DOMAIN smCall.before.phases \cup {smCall.name}

\* A second setPhaseStatus on a phase overwrote one field and kept another.
C20_Witness ==
  /\ smCall.op = "setPhaseStatus"
  /\ smCall.name = "zsh"
  /\ smCall.partial = [installed |-> FALSE, skipped |-> TRUE]
  /\ "zsh" \in DOMAIN smCall.before.phases
  /\ DOMAIN smCall.before.phases["zsh"] = {"installed", "configured", "lastUpdated"}
  /\ smCall.before.phases["zsh"].installed = TRUE
  /\ state.phases["zsh"].configured = TRUE
  /\ state.phases["zsh"].installed = FALSE
  /\ "tools" \in DOMAIN state.phases

\* ------------------------------------------------------------------------
\* The priority order of the categories, for the claims
\* ------------------------------------------------------------------------
Categories ==
  {"network", "permission", "package-manager", "filesystem", "command-not-found",
   "timeout", "configuration", "unknown"}

Priority ==
  <<"network", "permission", "package-manager", "filesystem", "command-not-found",
    "timeout", "configuration">>

Matches(category, error) ==
  CASE category = "network" -> isNetworkError(error)
    [] category = "permission" -> isPermissionError(error)
    [] category = "package-manager" -> isPackageManagerError(error)
    [] category = "filesystem" -> isFileSystemError(error)
    [] category = "command-not-found" -> isCommandNotFoundError(error)
    [] category = "timeout" -> isTimeoutError(error)
    [] category = "configuration" -> isConfigurationError(error)

Matching(error) == {k \in 1..Len(Priority) : Matches(Priority[k], error)}

FirstMatch(error) ==
  IF Matching(error) = {} THEN "unknown"
  ELSE Priority[CHOOSE k \in Matching(error) : \A j \in Matching(error) : k <= j]

\* ------------------------------------------------------------------------
\* Claims about the Retry Policy Engine
\* ------------------------------------------------------------------------
Terminated == rpc \in {"returned", "thrown"}
MaxRetriesOf(type) == configFor(type).maxRetries
EveryAttemptFails == opPlan.alwaysFails \/ opPlan.failFirst >= MaxRetriesOf(operationType) + 1

\* C6: for every operation category, withRetry called with an operation that
\* fails on every invocation never invokes it more than maxRetries+1 times,
\* and when it ends it ends by throwing, after exactly maxRetries+1 invocations.
C6_AlwaysFailingInvokedMaxRetriesPlusOne ==
  (operationType \in OperationTypes /\ opPlan.alwaysFails) =>
    /\ calls <= MaxRetriesOf(operationType) + 1
    /\ rpc # "returned"
    /\ rpc = "thrown" => calls = MaxRetriesOf(operationType) + 1

C6_Witness ==
  /\ operationType = "network"
  /\ opPlan.alwaysFails
  /\ rpc = "thrown"
  /\ calls = 4

\* min(baseDelay * multiplier^(a-1), maxDelay), by repeated multiplication
RECURSIVE Backoff(_, _)
Backoff(a, config) ==
  IF a <= 1 THEN RatOf(config.baseDelay)
  ELSE LET prev == Backoff(a - 1, config)
       IN  [n |-> prev.n * config.backoffMultiplier.num,
            d |-> prev.d * config.backoffMultiplier.den]

CappedBackoff(a, config) ==
  IF RatLeq(Backoff(a, config), RatOf(config.maxDelay))
  THEN Backoff(a, config) ELSE RatOf(config.maxDelay)

\* C7: the delay slept after failed attempt a (1 <= a <= maxRetries) is
\* min(baseDelay * multiplier^(a-1), maxDelay); it is never negative, never
\* above maxDelay, and non-decreasing in a.
C7_DelayIsCappedExponential ==
  LET config == configFor(operationType) IN
  /\ Len(sleeps) <= config.maxRetries
  /\ \A a \in 1..Len(sleeps) :
       /\ RatEq(sleeps[a], CappedBackoff(a, config))
       /\ RatLeq(RatOf(0), sleeps[a])
       /\ RatLeq(sleeps[a], RatOf(config.maxDelay))
       /\ a > 1 => RatLeq(sleeps[a - 1], sleeps[a])

C7_Witness ==
  /\ operationType = "file-operation"
  /\ Len(sleeps) = 3
  /\ sleeps[3] = [n |-> 500 * 36, d |-> 25]

\* C8: an operation that fails on its first k invocations (k <= maxRetries) and
\* then succeeds is invoked k+1 times, one sleep follows each failed invocation
\* and none the success, and withRetry returns the operation's value.
C8_SucceedsAfterKFailures ==
  (~opPlan.alwaysFails /\ opPlan.failFirst <= MaxRetriesOf(operationType)) =>
    /\ rpc # "thrown"
    /\ rpc = "sleeping" => Len(sleeps) = calls
    /\ rpc = "loop" => Len(sleeps) = calls
    /\ rpc = "returned" =>
         /\ calls = opPlan.failFirst + 1
         /\ Len(sleeps) = opPlan.failFirst
         /\ retryResult = [kind |-> "value", value |-> OperationValue]

C8_Witness ==
  /\ ~opPlan.alwaysFails
  /\ opPlan.failFirst = 3
  /\ operationType = "network"
  /\ rpc = "returned"
  /\ Len(sleeps) = 3

IsPrefix(p, q) == Len(p) <= Len(q) /\ SubSeq(q, 1, Len(p)) = p

\* C9: when every attempt fails withRetry does not return: it throws an error
\* that carries the last underlying error, the category of that error, the
\* category's suggestion list and the caller's context.
C9_ExhaustedThrowsEnrichedError ==
  /\ EveryAttemptFails => rpc # "returned"
  /\ rpc = "thrown" =>
       /\ EveryAttemptFails
       /\ retryResult.kind = "thrown"
       /\ retryResult.error.name = "VpsSetupError"
       /\ retryResult.error.originalError = lastError
       /\ retryResult.error.category = FirstMatch(lastError)
       /\ IsPrefix(suggestionsOf[retryResult.error.category], retryResult.error.suggestions)
       /\ retryResult.error.context = context

C9_Witness ==
  /\ rpc = "thrown"
  /\ opPlan.alwaysFails
  /\ context.phase = "Zsh Setup"
  /\ lastError.code = "EACCES"
  /\ retryResult.error.category = "permission"
  /\ Len(retryResult.error.suggestions) = 5

\* ------------------------------------------------------------------------
\* Claims about classification
\* ------------------------------------------------------------------------
\* C10: analyzeError assigns one category of the eight, the first of the
\* priority order whose test matches (unknown when none does), also when
\* several match; the two example messages yield network and permission.
C10_FirstMatchingCategoryWins ==
  errorInfo # NoInfo =>
    /\ errorInfo.category \in Categories
    /\ errorInfo.category = FirstMatch(anError)
    /\ (anError.message = "ECONNREFUSED: connection refused" /\ anError.code = Undefined)
         => errorInfo.category = "network"
    /\ (anError.message = "EACCES: permission denied" /\ anError.code = Undefined)
         => errorInfo.category = "permission"

C10_Witness ==
  /\ errorInfo # NoInfo
  /\ anError.message = "Permission denied while installing package on host"
  /\ anError.code = Undefined
  /\ Cardinality(Matching(anError)) = 3
  /\ errorInfo.category = "network"

\* C12: the failure of a phase whose timer fired first carries a timeout
\* error: analyzeError puts the error the timer rejects with (its message
\* 'Phase timeout', no code) in category 'timeout'.
C12_PhaseTimeoutIsCategoryTimeout ==
  (errorInfo # NoInfo /\ anError.message = PhaseTimeoutError.message
     /\ anError.code = Undefined /\ anError.exitCode = Undefined) =>
    errorInfo.category = "timeout"

\* ------------------------------------------------------------------------
\* Claims about withGracefulDegradation (specification SpecDegrade)
\* ------------------------------------------------------------------------
\* the fallback operation has been invoked
fallbackInvoked == wgd.stage = "fallback" /\ calls > 0

\* C21: the fallback is invoked only after the primary failed on all of its
\* maxRetries + 1 attempts and runs with context.operation = 'fallback'; when
\* the fallback exhausts its retries too, the error propagated carries the
\* category of the fallback's failure and the suggestions of that category.
C21_FallbackAfterExhaustionAndItsErrorPropagates ==
  /\ (wgd.fallback # NoResult \/ fallbackInvoked) =>
       /\ wgd.primary.kind = "thrown"
       /\ wgd.primaryCalls = MaxRetriesOf("default") + 1
  /\ fallbackInvoked => context.operation = "fallback"
  /\ (wgd.stage = "done" /\ wgd.fallback.kind = "thrown") =>
       /\ wgd.result.kind = "thrown"
       /\ wgd.result.error.category = wgd.fallback.error.category
       /\ IsPrefix(suggestionsOf[wgd.fallback.error.category], wgd.result.error.suggestions)

\* the order of the two withRetry calls and the context of the second
fallbackOnlyAfterExhaustion ==
  /\ (wgd.fallback # NoResult \/ fallbackInvoked) =>
       /\ wgd.primary.kind = "thrown"
       /\ wgd.primaryCalls = MaxRetriesOf("default") + 1
  /\ fallbackInvoked => context.operation = "fallback"
  /\ (wgd.stage = "done" /\ wgd.primary.kind = "value") =>
       wgd.fallback = NoResult /\ wgd.result = wgd.primary

\* ------------------------------------------------------------------------
\* Claims about what a run leaves for the next one (specification Spec)
\* ------------------------------------------------------------------------
\* the user chose 'skip' in the prompt of phase i in this, the first, run: the
\* body recorded { skipped: true } and returned { success: true, skipped: true }
userSkipped(i) ==
  /\ runNo = 1
  /\ outcome[i] = "returned success"
  /\ "skipped" \in DOMAIN idRecord(state, i)

\* phase i ended this run as Skipped: by the skip-list or skip-optional (not
\* because it was Completed before), or by the user's choice
endedSkipped(i) ==
  \/ decision[i] = "skip" /\ ~persistedCompleted(i)
  \/ userSkipped(i)

\* C23: a phase that ended a run as Skipped is not remembered as done: when
\* the run has ended and saved its state, the file does not hold the phase as
\* Completed, so the skip decision of the next run does not rest on it.
C23_SkippedIsNotRememberedAsDone ==
  (pc = "exited" /\ exitCode = "0") =>
    \A i \in PhaseIndexes :
      endedSkipped(i) => getPhaseState(loadState(disk), PhaseNames[i]).status # "completed"

\* C24: naming a phase by its documented identifier (zsh, tools, config,
\* admin, optional) in --skip-phases skips exactly that phase: once its skip
\* decision is taken it is 'skip' and its body is not invoked, and a phase
\* that is not named, not Completed and not skipped as optional is run.
C24_SkipPhasesByIdentifier ==
  \A i \in PhaseIndexes :
    /\ (listIncludes(options.skipPhases, PhaseIds[i]) /\ decision[i] # "none") =>
         decision[i] = "skip" /\ ~wasInvoked(i)
    /\ ( /\ options.skipPhases # << >>
         /\ ~listIncludes(options.skipPhases, PhaseIds[i])
         /\ ~listIncludes(options.skipPhases, PhaseNames[i])
         /\ ~persistedCompleted(i)
         /\ ~(isOptional(i) /\ options.skipOptional)
         /\ decision[i] # "none" ) => decision[i] = "run"

\* phase i is named in options.skipPhases as shouldSkipPhase reads it
inSkipList(i) == listIncludes(options.skipPhases, PhaseNames[i])

\* C25: with skipOptional = true every optional phase is skipped and its body
\* not invoked; no phase that is not optional is skipped on that ground (a
\* skipped one is Completed or in the skip-list); with skipOptional unset,
\* isOptional() has no effect: a phase is skipped exactly when it is Completed
\* or in the skip-list.
C25_SkipOptionalSkipsExactlyOptional ==
  \A i \in PhaseIndexes :
    decision[i] # "none" =>
      /\ (options.skipOptional /\ isOptional(i)) => (decision[i] = "skip" /\ ~wasInvoked(i))
      /\ (decision[i] = "skip" /\ ~isOptional(i)) => (persistedCompleted(i) \/ inSkipList(i))
      /\ ~options.skipOptional =>
           (decision[i] = "skip" <=> (persistedCompleted(i) \/ inSkipList(i)))

\* a run with --skip-optional skipped the optional phase, which was not
\* Completed, after it had run the phase before it
C25_Witness ==
  /\ options.skipOptional
  /\ decision[totalPhases] = "skip"
  /\ isOptional(totalPhases)
  /\ ~persistedCompleted(totalPhases)
  /\ ~inSkipList(totalPhases)
  /\ decision[totalPhases - 1] = "run"
  /\ wasInvoked(totalPhases - 1)

\* every phase of this run was Completed before it or had its body return
\* success in it
everyPhaseCompleted ==
  \A i \in PhaseIndexes :
    \/ decision[i] = "skip" /\ persistedCompleted(i)
    \/ decision[i] = "run" /\ outcome[i] = "returned success"

\* C26: idempotence of runs. A run in which every phase completed leaves
\* every phase Completed in the state file; a following run that loads such a
\* file, with no forced phases, invokes no phase body: every phase it decides
\* on is skipped and the records of the bodies stay as they were loaded.
C26_SecondRunInvokesNothing ==
  /\ (pc = "exited" /\ exitCode = "0" /\ everyPhaseCompleted) =>
       \A i \in PhaseIndexes :
         getPhaseState(loadState(disk), PhaseNames[i]).status = "completed"
  /\ ( /\ runNo = 2
       /\ pc \notin {"shell", "preflight", "initState"}
       /\ \A i \in PhaseIndexes : persistedCompleted(i)
       /\ options.forcePhases = << >> /\ ~options.resetState ) =>
       /\ invoked = << >>
       /\ \A i \in PhaseIndexes : decision[i] \in {"none", "skip"}
       /\ state.phases = loaded.phases
       /\ pc \in {"report", "finalize"} => \A i \in PhaseIndexes : decision[i] = "skip"
       /\ pc = "exited" => exitCode = "0"

\* the second run ended after it had skipped all five phases, which the first
\* run had left Completed
C26_Witness ==
  /\ runNo = 2
  /\ pc = "exited"
  /\ exitCode = "0"
  /\ ~options.help
  /\ \A i \in PhaseIndexes : persistedCompleted(i) /\ decision[i] = "skip"
  /\ invoked = << >>

\* ------------------------------------------------------------------------
\* Claims about the error tally (specification SpecDegrade)
\* ------------------------------------------------------------------------
\* the tally after recordError for the retry-exhausted failures of the call:
\* the primary's, then the fallback's
talliedFailures ==
  LET afterPrimary ==
        IF wgd.primary.kind = "thrown"
        THEN recordError(NoCounts, wgd.primary.error.category, wgd.primary.error.context)
        ELSE NoCounts
  IN  IF wgd.fallback.kind = "thrown"
      THEN recordError(afterPrimary, wgd.fallback.error.category, wgd.fallback.error.context)
      ELSE afterPrimary

\* C27: when the call is over, the report of the ErrorHandler counts the
\* retry-exhausted failures that happened, by category and operation:
\* totalErrors is their number, and it is above 0 when a withRetry call
\* exhausted its retries.
C27_TallyCountsExhaustedFailures ==
  wgd.stage = "done" =>
    /\ generateErrorReport(errorCounts).errorBreakdown = talliedFailures
    /\ generateErrorReport(errorCounts).totalErrors =
         generateErrorReport(talliedFailures).totalErrors
    /\ wgd.primary.kind = "thrown" => generateErrorReport(errorCounts).totalErrors > 0

\* ------------------------------------------------------------------------
\* Liveness (specification SpecLive)
\* ------------------------------------------------------------------------
\* C28: no operation is retried indefinitely. Every withRetry call that was
\* entered ends with a value or an error, every withGracefulDegradation call
\* that was entered ends, and, every sleep and timer firing eventually, a run
\* that was started ends with an exit code.
C28_EverythingTerminates ==
  /\ (rpc \in {"loop", "sleeping"}) ~> (rpc \in {"returned", "thrown"})
  /\ (wgd.stage \in {"primary", "fallback"}) ~> (wgd.stage = "done")
  /\ (pc = "preflight") ~> (pc = "exited" /\ exitCode \in {"0", "1"})

\* a run ended after its connectivity check had needed a retry, the body of
\* its first phase had been cut off by the timer and the later ones had run
C28_Witness ==
  /\ pc = "exited"
  /\ exitCode = "0"
  /\ outcome[1] = "timeout"
  /\ outcome[2] = "returned success"
  /\ decision[totalPhases] = "skip"

\* C29: the state file is written after each phase concludes: while the body
\* of a later phase is running, and when the process has ended, every phase
\* whose body returned success in this run is Completed in the file, so that
\* the next run loads it as Completed and skips it.
C29_PhaseOutcomeOnDiskBeforeNextPhase ==
  \A i \in PhaseIndexes :
    ( /\ outcome[i] = "returned success"
      /\ \/ pc = "running" /\ currentPhaseIndex > i
         \/ pc = "exited" ) =>
      getPhaseState(loadState(disk), PhaseNames[i]).status = "completed"

\* ------------------------------------------------------------------------
\* Two processes compared: the same command line without and with --verbose,
\* on the same machine, with the same outcomes of the phase bodies and of the
\* commands they run. A process is computed here as a whole, from the command
\* line to its exit.
\* ------------------------------------------------------------------------
\* What execa resolves with for the command a phase body runs.
ExecaResults ==
  { [stdout |-> "zsh 5.9 (x86_64-ubuntu-linux-gnu)", stderr |-> "", exitCode |-> "0"],
    [stdout |-> "", stderr |-> "", exitCode |-> "0"] }

\* How the body of a phase ends, given to the process from outside.
ScriptKinds ==
  {"work done", "user skips", "returns failure", "throws", "times out", "user aborts"}
LaterScriptKinds == {"work done", "throws", "times out"}
ScriptKindsOf(i) == IF i <= 2 THEN ScriptKinds ELSE LaterScriptKinds

Scripts ==
  [ preflight : BOOLEAN,
    body : { b \in [PhaseIndexes -> ScriptKinds] : \A i \in PhaseIndexes : b[i] \in ScriptKindsOf(i) },
    execa : ExecaResults ]

\* what the body resolves with, for the kinds that resolve
bodyValue(kind) ==
  IF kind = "work done" THEN [success |-> TRUE, skipped |-> FALSE]
  ELSE IF kind = "user skips" THEN [success |-> TRUE, skipped |-> TRUE]
  ELSE [success |-> FALSE, error |-> "Failed to install htop"]

\* run(options): if (options.verbose) this.commandRunner.setVerbose(true);
\* the constructor of CommandRunner leaves verbose false
commandRunnerVerbose(opts) == IF opts.verbose = TRUE THEN TRUE ELSE FALSE

\* Mutant of runOperation: stdout is handed to the caller only when verbose.
runOperation_StdoutOnlyWhenVerbose(verbose, result) ==
  [ output |-> [success |-> TRUE, stdout |-> IF verbose THEN result.stdout ELSE "",
                stderr |-> result.stderr, exitCode |-> result.exitCode],
    logged |-> IF verbose /\ result.stdout # "" THEN <<result.stdout>> ELSE << >> ]

\* CommandRunner.run: the operation it gives to withRetry, for the result of
\* execa: the output it returns and what it logs
\*   if (this.verbose && output.stdout) this.logger.info(output.stdout);
runOperation(verbose, result) ==
  [ output |-> [success |-> TRUE, stdout |-> result.stdout,
                stderr |-> result.stderr, exitCode |-> result.exitCode],
    logged |-> IF verbose /\ result.stdout # "" THEN <<result.stdout>> ELSE << >> ]

\* runPhases, after runPhase of phase i returned result with the RunState st
\* (afterRunPhase, as a function of the process so far)
phaseSettled(process, i, result, st) ==
  LET name == PhaseNames[i] IN
  IF result.success
  THEN [process EXCEPT !.state = updatePhaseState(st, name, "completed", result)]
  ELSE IF process.options.continueOnError # TRUE
       THEN [process EXCEPT
               !.errors = @ \o
                 << [phase |-> name, error |-> result.error],
                    [phase |-> name,
                     error |-> [message |-> "Phase " \o name \o " failed: " \o result.error.message]] >>,
               !.state = st,
               !.exitCode = "1"]
       ELSE [process EXCEPT
               !.errors = Append(@, [phase |-> name, error |-> result.error]),
               !.state = st]

\* one iteration of the loop of runPhases for a phase that is not skipped:
\* the body runs its command through the shared CommandRunner, and ends as
\* the script says
phaseRun(process, i, kind, result, now) ==
  LET command == runOperation(process.verbose, result)
      asked == kind \in {"user skips", "user aborts"}
      started ==
        [process EXCEPT
           !.decision[i] = "run",
           !.outputs = IF asked THEN @ ELSE Append(@, [phase |-> i, output |-> command.output]),
           !.logged = IF asked THEN @ ELSE @ \o command.logged]
  IN
  IF kind = "user aborts"
    THEN [started EXCEPT !.outcome[i] = "aborted", !.exitCode = "1"]
  ELSE IF kind = "times out"
    THEN phaseSettled([started EXCEPT !.outcome[i] = "timeout"], i,
                      runPhaseRejected(PhaseTimeoutError), started.state)
  ELSE IF kind = "throws"
    THEN phaseSettled([started EXCEPT !.outcome[i] = "threw"], i,
                      runPhaseRejected(CHOOSE error \in BodyErrors : TRUE), started.state)
  ELSE LET value == bodyValue(kind) IN
       phaseSettled([started EXCEPT !.outcome[i] =
                       IF value.success THEN "returned success" ELSE "returned failure"],
                    i, runPhaseResolved(value), bodyEffect(started.state, i, value, now))

\* for (let i = 0; i < this.phases.length; i++) ...   of runPhases
RECURSIVE runPhasesFrom(_, _, _, _)
runPhasesFrom(i, script, now, process) ==
  IF i > totalPhases \/ process.exitCode # NoExit THEN process
  ELSE IF shouldSkipPhase(i, process.options, process.state)
    THEN runPhasesFrom(i + 1, script, now,
                       [process EXCEPT !.decision[i] = "skip", !.state = onSkip(@, i)])
  ELSE runPhasesFrom(i + 1, script, now, phaseRun(process, i, script.body[i], script.execa, now))

\* node vps-setup.js <argv>, from the argument loop to the exit of the process
runOf(argv, script, file, now) ==
  LET opts == parseArguments(argv)
      created ==
        [ options |-> opts, verbose |-> FALSE, state |-> FreshState, disk |-> file,
          errors |-> << >>, decision |-> NoDecisions, outcome |-> NoOutcomes,
          outputs |-> << >>, logged |-> << >>, exitCode |-> NoExit ]
      entered ==
        [created EXCEPT
           !.verbose = commandRunnerVerbose(opts),
           !.logged = IF opts.verbose = TRUE THEN <<"Verbose output enabled">> ELSE << >>]
  IN
  IF opts.help THEN [created EXCEPT !.exitCode = "0"]
  ELSE IF ~script.preflight THEN [entered EXCEPT !.exitCode = "1"]
  ELSE LET after == runPhasesFrom(1, script, now, [entered EXCEPT !.state = loadState(file)])
       IN  IF after.exitCode # NoExit THEN after
           ELSE [after EXCEPT
                   !.state = stamped(after.state, now),
                   !.disk = saveState(after.state, now),
                   !.exitCode = "0"]

\* the command lines compared (each is run as it is, and with --verbose put
\* in front), and the state file the two processes find
ComparedCommandLines ==
  { << >>, <<"--continue-on-error">>, <<"--continue-on-error", "--skip-optional">>,
    <<"--skip-phases", "Admin Tools">> }
ComparedFiles ==
  { NoFile,
    saveState(updatePhaseState(FreshState, PhaseNames[1], "completed",
                               runPhaseResolved(bodyValue("work done"))), 1) }
NotRun == [exitCode |-> NoExit]

InitVerbose ==
  /\ \E argv \in ComparedCommandLines, script \in Scripts, file \in ComparedFiles :
       twoRuns = [stage |-> "compare", argv |-> argv, script |-> script, file |-> file,
                  plain |-> NotRun, verbose |-> NotRun]
  /\ OrchIdle
  /\ StateIdle
  /\ RetryIdle
  /\ ClassifyIdle
  /\ HandlerIdle

\* node vps-setup.js <argv>, at clock 2
RunPlain ==
  /\ twoRuns.stage = "compare"
  /\ twoRuns.plain.exitCode = NoExit
  /\ twoRuns' = [twoRuns EXCEPT !.plain = runOf(twoRuns.argv, twoRuns.script, twoRuns.file, 2)]
  /\ UNCHANGED <<orchVars, stateVars, retryVars, classifyVars, handlerVars>>

\* node vps-setup.js --verbose <argv>, at clock 2
RunVerbose ==
  /\ twoRuns.stage = "compare"
  /\ twoRuns.verbose.exitCode = NoExit
  /\ twoRuns' = [twoRuns EXCEPT
                   !.verbose = runOf(<<"--verbose">> \o twoRuns.argv, twoRuns.script,
                                     twoRuns.file, 2)]
  /\ UNCHANGED <<orchVars, stateVars, retryVars, classifyVars, handlerVars>>

NextVerbose ==
  \/ RunPlain
  \/ RunVerbose

SpecVerbose == InitVerbose /\ [][NextVerbose]_vars

\* The process computed as a whole is the process of the step-by-step model:
\* when a process of Spec has exited, runOf gives what it left, for the
\* outcomes its phase bodies had.
scriptOfRun ==
  [ preflight |-> ~(exitCode = "1" /\ decision[1] = "none"),
    body |-> [ i \in PhaseIndexes |->
                 IF outcome[i] = "returned success"
                 THEN IF /\ PhaseIds[i] \in DOMAIN state.phases
                         /\ "skipped" \in DOMAIN state.phases[PhaseIds[i]]
                      THEN "user skips" ELSE "work done"
                 ELSE IF outcome[i] = "returned failure" THEN "returns failure"
                 ELSE IF outcome[i] = "threw" THEN "throws"
                 ELSE IF outcome[i] = "aborted" THEN "user aborts"
                 ELSE "times out" ],
    execa |-> CHOOSE result \in ExecaResults : TRUE ]

runOfIsTheRun ==
  (pc = "exited" /\ runNo >= 1) =>
    \E whole \in { runOf(args, scriptOfRun,
                         [exists |-> TRUE, intact |-> TRUE, doc |-> loaded], runNo) } :
      /\ whole.options = options
      /\ whole.exitCode = exitCode
      /\ whole.decision = decision
      /\ whole.outcome = outcome
      /\ whole.errors = errors
      /\ whole.state = state
      /\ exitCode = "0" /\ ~options.help => whole.disk = disk

\* ------------------------------------------------------------------------
\* Claims about --verbose
\* ------------------------------------------------------------------------
bothRan ==
  /\ twoRuns.stage = "compare"
  /\ twoRuns.plain.exitCode # NoExit
  /\ twoRuns.verbose.exitCode # NoExit

\* C30: --verbose does not change control flow. Two processes that differ only
\* in options.verbose and see the same outcomes of the phase bodies and of the
\* commands decide the same phases skipped and run, end every phase the same
\* way, and leave the same error ledger, the same RunState in memory and on
\* disk and the same exit code; the bodies are handed the same command outputs.
C30_VerboseDoesNotChangeControlFlow ==
  bothRan =>
    /\ twoRuns.verbose.options = [twoRuns.plain.options EXCEPT !.verbose = TRUE]
    /\ twoRuns.plain.options.verbose = FALSE
    /\ twoRuns.verbose.decision = twoRuns.plain.decision
    /\ twoRuns.verbose.outcome = twoRuns.plain.outcome
    /\ twoRuns.verbose.errors = twoRuns.plain.errors
    /\ twoRuns.verbose.state = twoRuns.plain.state
    /\ twoRuns.verbose.disk = twoRuns.plain.disk
    /\ twoRuns.verbose.exitCode = twoRuns.plain.exitCode
    /\ twoRuns.verbose.outputs = twoRuns.plain.outputs

\* both processes ran to exit code 0 with a phase skipped, a phase run and a
\* phase failed, and the verbose one logged the output of its commands
C30_Witness ==
  /\ bothRan
  /\ twoRuns.verbose.verbose
  /\ ~twoRuns.plain.verbose
  /\ Len(twoRuns.verbose.logged) > Len(twoRuns.plain.logged) + 1
  /\ twoRuns.verbose.errors # << >>
  /\ \E i \in PhaseIndexes : twoRuns.verbose.decision[i] = "skip"
  /\ \E i \in PhaseIndexes : twoRuns.verbose.outcome[i] = "returned success"
  /\ twoRuns.verbose.exitCode = "0"

\* ------------------------------------------------------------------------
\* The command started with --help or -h among its arguments
\* ------------------------------------------------------------------------
HelpCommandLines ==
  { <<"--help">>, <<"-h">>, <<"--help", "--reset-state">>,
    <<"--continue-on-error", "-h", "--force-phases", "tools">>,
    <<"--skip-phases", "--help">>, << >> }

\* Every step a process takes, for the command lines above.
NextHelp ==
  \/ \E argv \in HelpCommandLines : Main(argv)
  \/ \E ok \in BOOLEAN : Preflight(ok)
  \/ InitializeState
  \/ DetectSystem
  \/ SkipPhase
  \/ StartPhase
  \/ \E value \in BodyValues : BodyResolves(value)
  \/ \E error \in BodyErrors : BodyRejects(error)
  \/ TimerFires
  \/ UserAborts
  \/ GenerateFinalReport
  \/ Finalize

SpecHelp == Init /\ [][NextHelp]_vars

\* argv holds --help or -h as an argument of its own, not as the list that
\* follows --skip-phases or --force-phases
helpAsked(argv) ==
  \E k \in 1..Len(argv) :
    /\ argv[k] \in {"--help", "-h"}
    /\ k = 1 \/ argv[k - 1] \notin {"--skip-phases", "--force-phases"}

\* C31: started with --help or -h, whatever follows it, the process exits
\* with code 0 at once: orchestrator.run is not entered, no phase body is
\* invoked, the state file is neither read nor written, and nothing is
\* recorded.
C31_HelpExitsWithoutSideEffects ==
  [][ helpAsked(args') =>
        /\ pc' = "exited"
        /\ exitCode' = "0"
        /\ disk' = disk
        /\ state' = FreshState
        /\ loaded' = FreshState
        /\ invoked' = << >>
        /\ decision' = NoDecisions
        /\ errors' = << >> ]_vars

\* a run left a state file, and the next process, started with -h between
\* other flags, has exited
C31_Witness ==
  /\ runNo = 2
  /\ pc = "exited"
  /\ helpAsked(args)
  /\ Len(args) > 1
  /\ args[1] # "--help"
  /\ disk.exists

\* ------------------------------------------------------------------------
\* Claims about the error ledger and the phase records
\* ------------------------------------------------------------------------
\* the phases whose race in runPhase was lost in this run: the body threw or
\* the timer fired
failedSoFar == { i \in PhaseIndexes : outcome[i] \in {"threw", "timeout"} }

\* C32: each phase that fails contributes exactly one ErrorRecord: at every
\* point the length of the ledger is the number of phases that failed so far.
C32_OneErrorRecordPerFailedPhase ==
  Len(errors) = Cardinality(failedSoFar)

\* with continueOnError the ledger has one record per lost race
oneRecordWhenContinuing ==
  options.continueOnError = TRUE => Len(errors) = Cardinality(failedSoFar)

\* what a PhaseRecord says: skipped by the user, or done (installed,
\* configured, or status completed)
saysSkipped(r) == "skipped" \in DOMAIN r /\ r.skipped = TRUE
saysDone(r) ==
  \/ "installed" \in DOMAIN r /\ r.installed = TRUE
  \/ "configured" \in DOMAIN r /\ r.configured = TRUE
  \/ "status" \in DOMAIN r /\ r.status = "completed"
oneStatus(st) == \A key \in DOMAIN st.phases : ~(saysSkipped(st.phases[key]) /\ saysDone(st.phases[key]))

completedIn(st) ==
  { i \in PhaseIndexes : getPhaseState(st, PhaseNames[i]).status = "completed" }

\* C34: the completed count of the final report is the number of declared
\* phases whose status is Completed at report time, and lies between 0 and
\* the number of phases.
C34_ReportCountsCompletedPhases ==
  pc = "finalize" =>
    /\ phasesCompleted(errors) = Cardinality(completedIn(state))
    /\ phasesCompleted(errors) \in 0..totalPhases

\* ------------------------------------------------------------------------
\* Claims about loading a state file written by another version
\* ------------------------------------------------------------------------
\* every field of the RunState has a value, a missing one its default
hasDefaults(st) ==
  /\ \A f \in DOMAIN FreshState : f \in DOMAIN st
  /\ st.phases # Null
  /\ \A k \in DOMAIN NoSystem : k \in DOMAIN st.system

\* C35: load() of a parsable document with unknown fields, without some
\* top-level fields or with a partial nested mapping raises no error and
\* returns true, every missing field has its default value afterwards, and
\* getPhaseStatus, getSystemInfo and isFirstRun return without failing.
C35_LoadIsForwardCompatible ==
  /\ smCall.op = "load" => (smCall.retBool /\ hasDefaults(state))
  /\ smCall.op # "getPhaseStatus threw"

\* the parts of it, one by one
loadKeepsTopLevelDefaults ==
  smCall.op = "load" => (smCall.retBool /\ \A f \in DOMAIN FreshState : f \in DOMAIN state)
loadKeepsNestedDefaults ==
  smCall.op = "load" => \A k \in DOMAIN NoSystem : k \in DOMAIN state.system
gettersReturn == smCall.op # "getPhaseStatus threw"

\* ------------------------------------------------------------------------
\* Claims about classifying an error twice
\* ------------------------------------------------------------------------
\* the error createEnhancedError makes of the classified error, as the next
\* analyzeError reads it
enriched == asThrown(createEnhancedError(anError, errorInfo, anContext))

\* C36: classification is stable under enrichment: when analyzeError has
\* classified an error, classifying the error createEnhancedError makes of it
\* yields the same category.
C36_ClassificationStableUnderEnrichment ==
  errorInfo # NoInfo =>
    analyzeError(enriched, anContext).category = errorInfo.category

\* the categories for which it holds
stableCategories ==
  (errorInfo # NoInfo /\ errorInfo.category # "command-not-found") =>
    analyzeError(enriched, anContext).category = errorInfo.category

\* ------------------------------------------------------------------------
\* Claims about nested retries
\* ------------------------------------------------------------------------
\* how often the command has been executed in this call of installPackage
executedSoFar ==
  IF install.stage = "done" THEN install.executions ELSE install.executions + calls

\* (2 + 1) * (2 + 1)
nestedBound ==
  (configFor("package-install").maxRetries + 1) * (configFor("command-execution").maxRetries + 1)

\* C37: nested retries multiply but stay bounded: a command that always
\* fails has been executed exactly 9 times when installPackage throws, and no
\* command is ever executed more often.
C37_NestedRetriesMultiplyAndAreBounded ==
  install.stage # "idle" =>
    /\ nestedBound = 9
    /\ executedSoFar <= nestedBound
    /\ (install.stage = "done" /\ install.command.alwaysFails) =>
         (install.result.kind = "thrown" /\ install.executions = nestedBound)
    /\ (install.stage = "done" /\ install.result.kind = "thrown") =>
         install.executions = nestedBound

\* installPackage threw for a command that always fails
C37_Witness ==
  /\ install.stage = "done"
  /\ install.command.alwaysFails
  /\ install.result.kind = "thrown"
  /\ install.executions = 9
  /\ Len(install.sleeps) = 2

\* ------------------------------------------------------------------------
\* Claims about lastRun
\* ------------------------------------------------------------------------
\* C38: lastRun changes only through a save() that succeeded: after a save()
\* that returned false, lastRun, and with it isFirstRun(), is as before the
\* call.
C38_LastRunChangesOnlyOnSuccessfulSave ==
  (smCall.op = "save" /\ ~smCall.retBool) =>
    /\ state.lastRun = smCall.before.lastRun
    /\ isFirstRun(state) = isFirstRun(smCall.before)

\* the other calls leave lastRun alone, load() apart
othersKeepLastRun ==
  smCall.op \in {"setPhaseStatus", "getPhaseStatus", "setSystemInfo"} =>
    state.lastRun = smCall.before.lastRun

\* ------------------------------------------------------------------------
\* Claims about the skip branch
\* ------------------------------------------------------------------------
\* this step is the loop iteration that skips phase i
skipsNow(i) == decision[i] # "skip" /\ decision'[i] = "skip"

\* C39: a skip decided by the orchestrator has no effect on state: the loop
\* iteration in which shouldSkipPhase returns true leaves every PhaseRecord,
\* the rest of the RunState, the state file and the error ledger unchanged,
\* and invokes no phase body.
C39_SkipHasNoEffectOnState ==
  [][ \A i \in PhaseIndexes :
        skipsNow(i) =>
          /\ state' = state
          /\ disk' = disk
          /\ errors' = errors
          /\ invoked' = invoked
          /\ outcome' = outcome ]_vars

\* the last phase was skipped in a run that had completed a phase and
\* recorded the failure of another
C39_Witness ==
  /\ pc = "report"
  /\ decision[totalPhases] = "skip"
  /\ errors # << >>
  /\ \E i \in PhaseIndexes : outcome[i] = "returned success"
  /\ totalPhases \notin { invoked[k] : k \in 1..Len(invoked) }

=============================================================================
